---- MODULE Spec2Model ----
(***************************************************************************)
(* Patient-registration wizard (src/src/pages/AddPatient.tsx) and the      *)
(* hosted data store it writes to (src/supabase/*.sql).                    *)
(*                                                                         *)
(* A wizard instance ("session") is one mounted AddPatient component of    *)
(* one logged-in diagnostic center.  Its state is the component's useState *)
(* cells, the react-hook-form values / errors / isSubmitted flag, and the  *)
(* onSubmit invocations that are still awaiting a round trip.  The store   *)
(* is shared by all sessions.                                              *)
(*                                                                         *)
(* Text values are sequences of one-character strings, so that length and  *)
(* regular-expression checks are computed and not assumed.  A number input *)
(* is a sequence of at most one integer (<<>> is the empty input).         *)
(***************************************************************************)
EXTENDS Integers, Sequences, FiniteSets, TLC

(***************************************************************************)
(* Bounds of the model                                                     *)
(***************************************************************************)
MaxSubmits == 2
MaxChildren == 2
MaxPatients == 2
MaxDoctors == 1
MaxOps == 3
MaxRegistrations == 1
MaxEdits == 1
MaxLogins == 2

(***************************************************************************)
(* Program constants                                                       *)
(***************************************************************************)
AadharLength == 12
PhoneLength == 10
NameMinLength == 2
AddressMinLength == 10
AgeMin == 18
AgeMax == 65
ChildrenAliveMin == 0
ChildrenAliveMax == 10
OtpMinLength == 6
LmpMonthsBack == 9
LastStep == 4

Sessions == {"s1", "s2"}
Centers == {"c1", "c2"}

Digits == {"0", "1", "2", "3", "4", "5", "6", "7", "8", "9"}

\* n copies of the character c
Rep(c, n) == [i \in 1..n |-> c]

\* The JavaScript value true returned by a validator; every other validator
\* result is the (non-empty) message string.
JsTrue == "<true>"

\* JavaScript truthiness of a validator result: true and every non-empty
\* string are truthy, only the empty string is falsy.
JsTruthy(r) == r # ""

(***************************************************************************)
(* Validators                                                              *)
(***************************************************************************)
\* Changed pattern /^[6-9]\d{9}/: the end of the string is not anchored.
PhoneRegexTestOpenEnd(value) ==
    /\ Len(value) >= PhoneLength
    /\ value[1] \in {"6", "7", "8", "9"}
    /\ \A i \in 1..PhoneLength : value[i] \in Digits

\* /^[6-9]\d{9}$/.test(value)
PhoneRegexTest(value) ==
    /\ Len(value) = PhoneLength
    /\ value[1] \in {"6", "7", "8", "9"}
    /\ \A i \in 1..Len(value) : value[i] \in Digits

validatePhoneNumber(value) ==
    IF PhoneRegexTest(value) THEN JsTrue
    ELSE "Please enter a valid 10-digit mobile number"

\* Register.tsx: validatePhoneNumber returns phoneRegex.test(phone), a boolean.
Register_validatePhoneNumber(phone) == PhoneRegexTest(phone)

\* /^\d{12}$/.test(value)
AadharRegexTest(value) ==
    /\ Len(value) = AadharLength
    /\ \A i \in 1..Len(value) : value[i] \in Digits

(***************************************************************************)
(* Calendar dates at day granularity, [y, m, d] with m in 1..12.           *)
(***************************************************************************)
IsLeap(y) == (y % 4 = 0 /\ y % 100 # 0) \/ y % 400 = 0

DaysInMonth(y, m) ==
    IF m = 2 THEN (IF IsLeap(y) THEN 29 ELSE 28)
    ELSE IF m \in {4, 6, 9, 11} THEN 30 ELSE 31

DateLess(a, b) ==
    \/ a.y < b.y
    \/ a.y = b.y /\ a.m < b.m
    \/ a.y = b.y /\ a.m = b.m /\ a.d < b.d

\* Date.prototype.setMonth(getMonth() - n): the month index moves back n
\* months (borrowing years), the day of month is kept, and a day past the
\* end of the target month rolls over into the following month.
SetMonthBack(t, n) ==
    LET idx == (t.m - 1) - n
        yy  == IF idx < 0 THEN t.y - 1 ELSE t.y
        mm  == (IF idx < 0 THEN idx + 12 ELSE idx) + 1
        dim == DaysInMonth(yy, mm)
    IN  IF t.d <= dim THEN [y |-> yy, m |-> mm, d |-> t.d]
        ELSE IF mm = 12 THEN [y |-> yy + 1, m |-> 1, d |-> t.d - dim]
        ELSE [y |-> yy, m |-> mm + 1, d |-> t.d - dim]

SameDay(a, b) == a.y = b.y /\ a.m = b.m /\ a.d = b.d

\* value is <<>> (the empty date input) or <<date>>.  new Date("") is an
\* invalid date, every comparison with it is false, so the result is true.
\* new Date("YYYY-MM-DD") is midnight UTC of that day, new Date() is the
\* present instant and minDate keeps its time of day.  today.late says
\* that the local clock is past the local time of midnight UTC (05:30 in
\* India; the zone is taken to be ahead of UTC).
validateLMP(value, today) ==
    IF Len(value) = 0 THEN JsTrue
    ELSE LET lmpDate == value[1]
             minDate == SetMonthBack(today, LmpMonthsBack)
         IN  IF DateLess(today, lmpDate) \/ (SameDay(lmpDate, today) /\ ~today.late)
             THEN "LMP date cannot be in the future"
             ELSE IF DateLess(lmpDate, minDate) \/ (SameDay(lmpDate, minDate) /\ today.late)
                  THEN "LMP date cannot be more than 9 months ago"
                  ELSE JsTrue

\* The day and time the wizard runs on (new Date()).
Today == [y |-> 2025, m |-> 5, d |-> 31, late |-> TRUE]

(***************************************************************************)
(* Form fields                                                             *)
(***************************************************************************)
Step1Fields == {"aadharNumber", "name", "age", "presentAddress", "contactNumber"}
Step2Fields == {"lastMenstrualPeriod", "numberOfChildrenAlive"}
Step3Fields == {"procedureDate", "performingDoctorId", "referringDoctorId",
                "selectedIndications", "scanPerformed"}
Step4Fields == {"hasAadharRegisteredMobile", "relativeName", "relationshipToPatient",
                "consentMobile", "consentOtp"}
Fields == Step1Fields \cup Step2Fields \cup Step3Fields \cup Step4Fields

\* Fields registered with a validation rule.
RuleFields == Fields \ {"selectedIndications"}

\* useForm defaultValues; an input without a default holds "" once mounted.
DefaultValues ==
    [aadharNumber |-> <<>>, name |-> <<>>, age |-> <<18>>, presentAddress |-> <<>>,
     contactNumber |-> <<>>, lastMenstrualPeriod |-> <<>>,
     numberOfChildrenAlive |-> <<0>>, procedureDate |-> <<Today>>,
     performingDoctorId |-> "", referringDoctorId |-> "",
     selectedIndications |-> {}, scanPerformed |-> "",
     hasAadharRegisteredMobile |-> "", relativeName |-> <<>>,
     relationshipToPatient |-> "", consentMobile |-> <<>>, consentOtp |-> <<>>,
     children |-> <<>>]

NoErrors == [f \in RuleFields |-> ""]

\* The fixed test value handleVerifyConsentOtp compares with: "123456".
FixedOtp == <<"1", "2", "3", "4", "5", "6">>

\* { gender: "Male", ageInYears: 0 }
DefaultChild == [gender |-> "Male", ageInYears |-> 0]

(***************************************************************************)
(* State                                                                   *)
(***************************************************************************)
VARIABLES
    diagnosticCenter,       \* session -> center id of the logged-in center
    location,               \* session -> route shown ("/add-patient", "/dashboard")
    step,                   \* session -> wizard step 1..4
    showConsentOtp,         \* session -> BOOLEAN
    consentVerified,        \* session -> BOOLEAN
    aadharError,            \* session -> message, "" for null
    form,                   \* session -> react-hook-form values
    errors,                 \* session -> react-hook-form formState.errors
    isSubmitted,            \* session -> react-hook-form formState.isSubmitted
    subs,                   \* the onSubmit invocations made so far, in call order
    pregnant_women,         \* store tables: sets of rows
    pregnancy_details,
    children,
    procedures,
    procedure_indications,
    consent,
    nextId,                 \* next identifier the store hands out
    phoneCheck,             \* a mobile number handed to the two validatePhoneNumber
    lmpCheck,               \* a date and a clock handed to validateLMP
    csvExport,              \* Dashboard: the patients of the center and the file exported
    showNewPerformingDoctor, \* session -> BOOLEAN, the "Add New" panel is open
    newPerformingDoctors,   \* session -> sequence of doctors being entered
    showNewReferringDoctor, \* session -> BOOLEAN
    newReferringDoctors,    \* session -> sequence of doctors being entered
    doctorSubmissionError,  \* session -> message, "" for none
    performing_doctors,     \* store tables: sets of rows
    referring_doctors,
    auth,                   \* AuthProvider: [isAuthenticated, diagnosticCenter], <<>> for null
    authOps,                \* the calls made to the AuthProvider so far
    auth_users,             \* auth provider: the ids of the signed-up users
    diagnostic_centers,     \* store table
    registration,           \* Register: the handleSubmit invocation in progress
    edit,                   \* EditPatientModal: the handleSubmit invocation in progress
    deleteRequests,         \* the delete requests issued so far
    loginPage,              \* Login: phoneNumber, otp, showOtp, error and the route shown
    logins,                 \* Login: the handleVerifyOtp invocations made so far
    editModal,              \* EditPatientModal: isOpen, consent gate, saving, error
    dashboard               \* Dashboard: patients, searchTerm, currentPage

wizardVars == <<location, step, showConsentOtp, consentVerified, aadharError,
                form, errors, isSubmitted>>
storeVars == <<pregnant_women, pregnancy_details, children, procedures,
               procedure_indications, consent, nextId>>
panelVars == <<showNewPerformingDoctor, newPerformingDoctors, showNewReferringDoctor,
               newReferringDoctors, doctorSubmissionError>>
doctorTables == <<performing_doctors, referring_doctors>>
doctorVars == <<panelVars, doctorTables>>
checkVars == <<phoneCheck, lmpCheck, csvExport>>
authVars == <<auth, authOps>>
rowVars == <<auth_users, diagnostic_centers, registration, edit, deleteRequests>>
loginVars == <<loginPage, logins>>
pageVars == <<loginVars, editModal, dashboard>>
screenVars == <<checkVars, doctorVars, authVars, rowVars, pageVars, pageVars>>
vars == <<diagnosticCenter, wizardVars, subs, storeVars, screenVars>>

(***************************************************************************)
(* Data store                                                              *)
(***************************************************************************)
\* Row-level security, policy "Centers can manage their patients": a center
\* sees the pregnant_women rows whose diagnostic_center_id is its own id.
VisiblePatients(s) ==
    {r \in pregnant_women : r.diagnostic_center_id = diagnosticCenter[s]}

\* .from("pregnant_women").select("id").eq("aadhar_number", value).single()
\* The possible values of `data`, each a set: {} is null.  single() yields
\* the row when exactly one row matches and null otherwise; a round trip
\* that fails yields null as well (the error is not looked at).
AadharSelectSingle(s, value) ==
    LET rows == {r \in VisiblePatients(s) : r.aadhar_number = value}
    IN  (IF Cardinality(rows) = 1 THEN {rows} ELSE {}) \cup {{}}

\* Changed schema: the column carries no unique constraint.
AadharNotUnique(value) == FALSE

\* aadhaar_number VARCHAR(12) UNIQUE
AadharUniqueViolation(value) ==
    \E r \in pregnant_women : r.aadhar_number = value

\* The result of validateAadharNumber for the looked-up `data`.
validateAadharNumber(value, data) ==
    IF ~AadharRegexTest(value) THEN "Please enter a valid 12-digit Aadhar number"
    ELSE IF data # {} THEN "This Aadhar number is already registered"
    ELSE JsTrue

\* Whether validateAadharNumber reaches the store.
AadharQueries(value) == AadharRegexTest(value)

(***************************************************************************)
(* react-hook-form: which inputs are rendered, and what a field's rules    *)
(* say about its value                                                     *)
(***************************************************************************)
\* watch("hasAadharRegisteredMobile") && ... : the consent block is rendered
\* once an option other than "" is selected.
ConsentBlockShown(s) == step[s] = 4 /\ form[s].hasAadharRegisteredMobile # ""

\* The input registered under name f is rendered (step === n && ...).
Mounted(s, f) ==
    CASE f \in Step1Fields -> step[s] = 1
      [] f \in Step2Fields -> step[s] = 2
      [] f \in Step3Fields -> step[s] = 3
      [] f = "hasAadharRegisteredMobile" -> step[s] = 4
      [] f \in {"relativeName", "relationshipToPatient"} ->
            ConsentBlockShown(s) /\ form[s].hasAadharRegisteredMobile = "false"
      [] f = "consentMobile" -> ConsentBlockShown(s)
      [] f = "consentOtp" ->
            ConsentBlockShown(s) /\ showConsentOtp[s] /\ ~consentVerified[s]

\* disabled={showConsentOtp} on the consentMobile input,
\* disabled={showNewPerformingDoctor} on the performing-doctor select
Disabled(s, f) ==
    \/ f = "consentMobile" /\ showConsentOtp[s]
    \/ f = "performingDoctorId" /\ showNewPerformingDoctor[s]

\* The message the rules registered for field f give for the values v
\* ("" when the field passes): required first, then min / max, then
\* minLength, then validate.  data is the result of the Aadhar lookup.
FieldError(f, v, data) ==
    CASE f = "aadharNumber" ->
            IF Len(v.aadharNumber) = 0 THEN "Aadhar number is required"
            ELSE LET r == validateAadharNumber(v.aadharNumber, data)
                 IN  IF r = JsTrue THEN "" ELSE r
      [] f = "name" ->
            IF Len(v.name) = 0 THEN "Name is required"
            ELSE IF Len(v.name) < NameMinLength
                 THEN "Name must be at least 2 characters" ELSE ""
      [] f = "age" ->
            IF Len(v.age) = 0 THEN "Age is required"
            ELSE IF v.age[1] < AgeMin THEN "Age must be at least 18"
            ELSE IF v.age[1] > AgeMax THEN "Age must be less than 65" ELSE ""
      [] f = "presentAddress" ->
            IF Len(v.presentAddress) = 0 THEN "Present address is required"
            ELSE IF Len(v.presentAddress) < AddressMinLength
                 THEN "Address must be at least 10 characters" ELSE ""
      [] f = "contactNumber" ->
            IF Len(v.contactNumber) = 0 THEN "Contact number is required"
            ELSE LET r == validatePhoneNumber(v.contactNumber)
                 IN  IF r = JsTrue THEN "" ELSE r
      [] f = "lastMenstrualPeriod" ->
            IF Len(v.lastMenstrualPeriod) = 0 THEN "LMP is required"
            ELSE LET r == validateLMP(v.lastMenstrualPeriod, Today)
                 IN  IF r = JsTrue THEN "" ELSE r
      [] f = "numberOfChildrenAlive" ->
            IF Len(v.numberOfChildrenAlive) = 0 THEN "This field is required"
            ELSE IF v.numberOfChildrenAlive[1] < ChildrenAliveMin THEN "Cannot be negative"
            ELSE IF v.numberOfChildrenAlive[1] > ChildrenAliveMax
                 THEN "Cannot be more than 10" ELSE ""
      [] f = "procedureDate" ->
            IF Len(v.procedureDate) = 0 THEN "Procedure date is required" ELSE ""
      [] f = "performingDoctorId" ->
            IF v.performingDoctorId = "" THEN "Please select a performing doctor" ELSE ""
      [] f = "referringDoctorId" ->
            IF v.referringDoctorId = "" THEN "Please select a referring doctor" ELSE ""
      [] f = "scanPerformed" ->
            IF v.scanPerformed = "" THEN "Please select a scan" ELSE ""
      [] f = "hasAadharRegisteredMobile" ->
            IF v.hasAadharRegisteredMobile = "" THEN "Please select an option" ELSE ""
      [] f = "relativeName" ->
            IF Len(v.relativeName) = 0 THEN "Relative name is required" ELSE ""
      [] f = "relationshipToPatient" ->
            IF v.relationshipToPatient = "" THEN "Please select relationship" ELSE ""
      [] f = "consentMobile" ->
            IF Len(v.consentMobile) = 0 THEN "Mobile number is required"
            ELSE LET r == validatePhoneNumber(v.consentMobile)
                 IN  IF r = JsTrue THEN "" ELSE r
      [] f = "consentOtp" ->
            IF Len(v.consentOtp) = 0 THEN "OTP is required"
            ELSE IF Len(v.consentOtp) < OtpMinLength THEN "OTP must be 6 digits" ELSE ""

\* Validation of one field as react-hook-form runs it: an input that is
\* not rendered yields no error (and clears the one recorded for it).
\* required: !showNewPerformingDoctor && "..." : the performing-doctor
\* select carries no rule while the "Add New" panel is open.
RuleActive(s, f) == ~(f = "performingDoctorId" /\ showNewPerformingDoctor[s])

ValidateField(s, f, v, data) ==
    IF Mounted(s, f) /\ RuleActive(s, f) THEN FieldError(f, v, data) ELSE ""

\* setAadharError inside validateAadharNumber, when the rule is run
AadharErrorAfterValidate(s, v, data, old) ==
    IF Mounted(s, "aadharNumber") /\ Len(v.aadharNumber) > 0
       /\ AadharRegexTest(v.aadharNumber) /\ data # {}
    THEN "This Aadhar number is already registered" ELSE old

canProceedToNextStep(s) ==
    CASE step[s] = 1 ->
            errors[s].name = "" /\ errors[s].age = "" /\ errors[s].contactNumber = ""
      [] step[s] = 2 ->
            errors[s].lastMenstrualPeriod = "" /\ errors[s].numberOfChildrenAlive = ""
      [] step[s] = 3 ->
            /\ errors[s].procedureDate = ""
            /\ errors[s].performingDoctorId = ""
            /\ errors[s].referringDoctorId = ""
            /\ errors[s].scanPerformed = ""
      [] step[s] = 4 ->
            /\ errors[s].aadharNumber = ""
            /\ errors[s].hasAadharRegisteredMobile = ""
            /\ errors[s].relativeName = ""
            /\ errors[s].relationshipToPatient = ""
      [] OTHER -> TRUE

(***************************************************************************)
(* Initial state: the components have just mounted, the store is empty.    *)
(***************************************************************************)
\* The doctors the centers entered when they registered.
RegisteredPerformingDoctors ==
    {[id |-> "d1", diagnostic_center_id |-> "c1", name |-> "x", qualifications |-> "x",
      registration_number |-> "x", contact_info |-> "x"]}

RegisteredReferringDoctors ==
    {[id |-> "r1", diagnostic_center_id |-> "c1", name |-> "x", hospital_name |-> "x",
      hospital_address |-> "x", registration_number |-> "x", contact_info |-> "x"]}

\* No patient has been registered.
EmptyStore ==
    /\ pregnant_women = {}
    /\ pregnancy_details = {}
    /\ children = {}
    /\ procedures = {}
    /\ procedure_indications = {}
    /\ consent = {}
    /\ nextId = 1

InitSessions(centers) ==
    /\ diagnosticCenter \in centers
    /\ location = [s \in Sessions |-> "/add-patient"]
    /\ step = [s \in Sessions |-> 1]
    /\ showConsentOtp = [s \in Sessions |-> FALSE]
    /\ consentVerified = [s \in Sessions |-> FALSE]
    /\ aadharError = [s \in Sessions |-> ""]
    /\ form = [s \in Sessions |-> DefaultValues]
    /\ errors = [s \in Sessions |-> NoErrors]
    /\ isSubmitted = [s \in Sessions |-> FALSE]
    /\ subs = <<>>
    /\ showNewPerformingDoctor = [s \in Sessions |-> FALSE]
    /\ newPerformingDoctors = [s \in Sessions |-> <<>>]
    /\ showNewReferringDoctor = [s \in Sessions |-> FALSE]
    /\ newReferringDoctors = [s \in Sessions |-> <<>>]
    /\ doctorSubmissionError = [s \in Sessions |-> ""]
    /\ performing_doctors = RegisteredPerformingDoctors
    /\ referring_doctors = RegisteredReferringDoctors

InitWizard(centers) == InitSessions(centers) /\ EmptyStore

\* No value has been handed to the validators.
PhoneIdle == phoneCheck = [value |-> <<>>, pending |-> FALSE, result |-> "", register |-> FALSE]

LmpIdle == lmpCheck = [value |-> <<>>, today |-> Today, pending |-> FALSE, result |-> ""]

\* The Dashboard has not exported anything.
NoFile == [produced |-> FALSE, header |-> FALSE, rows |-> <<>>]

CsvIdle == csvExport = [patients |-> <<>>, now |-> Today, pending |-> FALSE, file |-> NoFile]

\* useState(false), useState(null)
LoggedOut == [isAuthenticated |-> FALSE, diagnosticCenter |-> <<>>]

AuthIdle == auth = LoggedOut /\ authOps = <<>>

\* The centers of the two wizards are registered.
RegisteredCenters ==
    {[id |-> "c1", phone_number |-> <<"9">> \o Rep("0", 9)],
     [id |-> "c2", phone_number |-> <<"8">> \o Rep("0", 9)]}

\* useState(''), useState(''), useState(false), useState('') of Login, shown at "/"
LoginPageOpened == [location |-> "/", phoneNumber |-> <<>>, otp |-> <<>>, showOtp |-> FALSE,
                    error |-> ""]



NoRegistration ==
    [step |-> 1, phoneNumber |-> <<>>, pc |-> "idle", runs |-> 0, user |-> "", form |-> <<>>,
     error |-> "", formErrors |-> [phoneNumber |-> "", name |-> "", performingDoctors |-> ""],
     issued |-> <<>>, succeeded |-> <<>>, navigated |-> FALSE]

NoEdit == [pc |-> "idle", runs |-> 0, patientId |-> 0, form |-> <<>>, error |-> "",
           issued |-> <<>>, succeeded |-> <<>>, before |-> {}]

\* useState(false) of showEditModal; useState(false), useState(null),
\* useState(false), useState(false) of the modal; its code input is empty.
ModalClosed == [isOpen |-> FALSE, saving |-> FALSE, error |-> "", showConsentOtp |-> FALSE,
                consentVerified |-> FALSE, otp |-> <<>>, updates |-> 0]

\* useState([]), useState(''), useState(1) of the Dashboard
\* Dashboard as mounted: no patient loaded, two fetchPatients calls pending.
DashboardOpened ==
    [patients |-> <<>>, loading |-> TRUE, pending |-> 2, searchTerm |-> <<>>, currentPage |-> 1]

PagesIdle == loginPage = LoginPageOpened /\ logins = <<>> /\ editModal = ModalClosed

DashboardIdle == dashboard = DashboardOpened

RowsIdle ==
    /\ auth_users = {"c1", "c2"}
    /\ diagnostic_centers = RegisteredCenters
    /\ registration = NoRegistration
    /\ edit = NoEdit
    /\ deleteRequests = {}

\* Every screen and validator outside the set `busy` is idle.
IdleExcept(busy) ==
    /\ AuthIdle
    /\ RowsIdle
    /\ PagesIdle
    /\ IF "phone" \in busy THEN TRUE ELSE PhoneIdle
    /\ IF "lmp" \in busy THEN TRUE ELSE LmpIdle
    /\ IF "csv" \in busy THEN TRUE ELSE CsvIdle
    /\ IF "dashboard" \in busy THEN TRUE ELSE DashboardIdle

InitWith(centers) == InitWizard(centers) /\ IdleExcept({})

OnWizard(s) == location[s] = "/add-patient"

(***************************************************************************)
(* Navigation                                                              *)
(***************************************************************************)
\* Continue button: onClick={() => setStep(step + 1)}, disabled={!canProceedToNextStep()}
Continue(s) ==
    /\ OnWizard(s)
    /\ step[s] < LastStep
    /\ canProceedToNextStep(s)
    /\ step' = [step EXCEPT ![s] = step[s] + 1]
    /\ UNCHANGED <<screenVars, diagnosticCenter, location, showConsentOtp, consentVerified,
                   aadharError, form, errors, isSubmitted, subs, storeVars>>

\* Changed Previous: moves two steps back.
PreviousTargetTwoBack(s) == step[s] - 2

\* Previous button: rendered when step > 1, onClick={() => setStep(step - 1)}
PreviousTarget(s) == step[s] - 1

Previous(s) ==
    /\ OnWizard(s)
    /\ step[s] > 1
    /\ step' = [step EXCEPT ![s] = PreviousTarget(s)]
    /\ UNCHANGED <<screenVars, diagnosticCenter, location, showConsentOtp, consentVerified,
                   aadharError, form, errors, isSubmitted, subs, storeVars>>

\* Sidebar entry stepIndex: if (stepIndex < step) setStep(stepIndex)
SidebarTarget(s, stepIndex) == IF stepIndex < step[s] THEN stepIndex ELSE step[s]

SidebarClick(s, stepIndex) ==
    /\ OnWizard(s)
    /\ step' = [step EXCEPT ![s] = SidebarTarget(s, stepIndex)]
    /\ UNCHANGED <<screenVars, diagnosticCenter, location, showConsentOtp, consentVerified,
                   aadharError, form, errors, isSubmitted, subs, storeVars>>

\* "Back to Home": navigate("/dashboard"); the component unmounts.
BackToHome(s) ==
    /\ OnWizard(s)
    /\ location' = [location EXCEPT ![s] = "/dashboard"]
    /\ UNCHANGED <<screenVars, diagnosticCenter, step, showConsentOtp, consentVerified,
                   aadharError, form, errors, isSubmitted, subs, storeVars>>

(***************************************************************************)
(* Field edits                                                             *)
(***************************************************************************)
\* The user changes the rendered, enabled input f to v.  useForm is created
\* without a mode: nothing is validated before the first submit, and after
\* it the changed field is validated again on every change.
EditField(s, f, v) ==
    /\ OnWizard(s)
    /\ Mounted(s, f)
    /\ ~Disabled(s, f)
    /\ form[s][f] # v
    /\ LET nv == [form[s] EXCEPT ![f] = v]
       IN  /\ form' = [form EXCEPT ![s] = nv]
           /\ IF isSubmitted[s] /\ f \in RuleFields
              THEN \E data \in AadharSelectSingle(s, nv.aadharNumber) :
                     /\ errors' = [errors EXCEPT ![s][f] = ValidateField(s, f, nv, data)]
                     /\ aadharError' =
                          [aadharError EXCEPT ![s] =
                             IF f = "aadharNumber"
                             THEN AadharErrorAfterValidate(s, nv, data, aadharError[s])
                             ELSE aadharError[s]]
              ELSE UNCHANGED <<errors, aadharError>>
    /\ UNCHANGED <<screenVars, diagnosticCenter, location, step, showConsentOtp, consentVerified,
                   isSubmitted, subs, storeVars>>

\* "Add Child" is rendered while numberOfChildrenAlive > 0.
ChildrenSectionShown(s) ==
    /\ step[s] = 2
    /\ Len(form[s].numberOfChildrenAlive) > 0
    /\ form[s].numberOfChildrenAlive[1] > 0

addChild(s) ==
    /\ OnWizard(s)
    /\ ChildrenSectionShown(s)
    /\ Len(form[s].children) < MaxChildren
    /\ form' = [form EXCEPT ![s].children = Append(@, DefaultChild)]
    /\ UNCHANGED <<screenVars, diagnosticCenter, location, step, showConsentOtp, consentVerified,
                   aadharError, errors, isSubmitted, subs, storeVars>>

\* currentChildren.filter((_, i) => i !== index)
RemoveAt(seq, index) ==
    [i \in 1..(Len(seq) - 1) |-> IF i < index THEN seq[i] ELSE seq[i + 1]]

removeChild(s, index) ==
    /\ OnWizard(s)
    /\ ChildrenSectionShown(s)
    /\ index \in 1..Len(form[s].children)
    /\ form' = [form EXCEPT ![s].children = RemoveAt(@, index)]
    /\ UNCHANGED <<screenVars, diagnosticCenter, location, step, showConsentOtp, consentVerified,
                   aadharError, errors, isSubmitted, subs, storeVars>>

(***************************************************************************)
(* Consent gate                                                            *)
(***************************************************************************)
\* if (!validatePhoneNumber(consentMobile)) { setError(...); return; }
\* setShowConsentOtp(true);
handleSendConsentOtp(s) ==
    /\ OnWizard(s)
    /\ ConsentBlockShown(s)
    /\ ~showConsentOtp[s]
    /\ IF ~JsTruthy(validatePhoneNumber(form[s].consentMobile))
       THEN /\ errors' = [errors EXCEPT ![s].consentMobile =
                             "Please enter a valid mobile number"]
            /\ UNCHANGED showConsentOtp
       ELSE /\ showConsentOtp' = [showConsentOtp EXCEPT ![s] = TRUE]
            /\ UNCHANGED errors
    /\ UNCHANGED <<screenVars, diagnosticCenter, location, step, consentVerified, aadharError,
                   form, isSubmitted, subs, storeVars>>

\* Changed check: any code of six characters is accepted.
OtpAcceptedAnySix(consentOtp) == Len(consentOtp) = OtpMinLength

\* consentOtp === "123456"
OtpAccepted(consentOtp) == consentOtp = FixedOtp

handleVerifyConsentOtp(s) ==
    /\ OnWizard(s)
    /\ ConsentBlockShown(s)
    /\ showConsentOtp[s]
    /\ ~consentVerified[s]
    /\ IF OtpAccepted(form[s].consentOtp)
       THEN /\ consentVerified' = [consentVerified EXCEPT ![s] = TRUE]
            /\ UNCHANGED errors
       ELSE /\ errors' = [errors EXCEPT ![s].consentOtp = "Invalid OTP"]
            /\ UNCHANGED consentVerified
    /\ UNCHANGED <<screenVars, diagnosticCenter, location, step, showConsentOtp, aadharError,
                   form, isSubmitted, subs, storeVars>>

(***************************************************************************)
(* Step 3: the "Add New" panels for performing and referring doctors       *)
(***************************************************************************)
PerformingFields == <<"name", "qualifications", "registrationNumber", "contactInfo">>

ReferringFields == <<"name", "hospitalName", "hospitalAddress", "registrationNumber",
                     "contactInfo">>

\* { name: "", qualifications: "", registrationNumber: "", contactInfo: "" }
BlankPerformingDoctor ==
    [name |-> "", qualifications |-> "", registrationNumber |-> "", contactInfo |-> ""]

BlankReferringDoctor ==
    [name |-> "", hospitalName |-> "", hospitalAddress |-> "", registrationNumber |-> "",
     contactInfo |-> ""]

PanelShown(s) == OnWizard(s) /\ step[s] = 3

\* The button next to the performing-doctor select ("Add New" / "Select").
TogglePerformingPanel(s) ==
    /\ PanelShown(s)
    /\ showNewPerformingDoctor' = [showNewPerformingDoctor EXCEPT ![s] = ~@]
    /\ newPerformingDoctors' =
         [newPerformingDoctors EXCEPT ![s] =
            IF ~showNewPerformingDoctor[s] THEN Append(@, BlankPerformingDoctor) ELSE <<>>]
    /\ UNCHANGED <<diagnosticCenter, wizardVars, subs, storeVars, checkVars, authVars, rowVars, pageVars,
                   showNewReferringDoctor, newReferringDoctors, doctorSubmissionError,
                   doctorTables>>

addNewPerformingDoctor(s) ==
    /\ PanelShown(s)
    /\ showNewPerformingDoctor[s]
    /\ Len(newPerformingDoctors[s]) < MaxDoctors
    /\ newPerformingDoctors' =
         [newPerformingDoctors EXCEPT ![s] = Append(@, BlankPerformingDoctor)]
    /\ UNCHANGED <<diagnosticCenter, wizardVars, subs, storeVars, checkVars, authVars, rowVars, pageVars,
                   showNewPerformingDoctor, showNewReferringDoctor, newReferringDoctors,
                   doctorSubmissionError, doctorTables>>

removeNewPerformingDoctor(s, index) ==
    /\ PanelShown(s)
    /\ showNewPerformingDoctor[s]
    /\ index \in 1..Len(newPerformingDoctors[s])
    /\ newPerformingDoctors' = [newPerformingDoctors EXCEPT ![s] = RemoveAt(@, index)]
    /\ UNCHANGED <<diagnosticCenter, wizardVars, subs, storeVars, checkVars, authVars, rowVars, pageVars,
                   showNewPerformingDoctor, showNewReferringDoctor, newReferringDoctors,
                   doctorSubmissionError, doctorTables>>

updateNewPerformingDoctor(s, index, field, value) ==
    /\ PanelShown(s)
    /\ showNewPerformingDoctor[s]
    /\ index \in 1..Len(newPerformingDoctors[s])
    /\ newPerformingDoctors[s][index][field] # value
    /\ newPerformingDoctors' = [newPerformingDoctors EXCEPT ![s][index][field] = value]
    /\ UNCHANGED <<diagnosticCenter, wizardVars, subs, storeVars, checkVars, authVars, rowVars, pageVars,
                   showNewPerformingDoctor, showNewReferringDoctor, newReferringDoctors,
                   doctorSubmissionError, doctorTables>>

\* The id the store gives the n-th row of a doctor table.
GeneratedId(prefix, n) == prefix \o ToString(n)

\* The row handleSubmitNewPerformingDoctors inserts for one entered doctor.
PerformingDoctorRow(s, doctor, id) ==
    [id |-> id, diagnostic_center_id |-> diagnosticCenter[s], name |-> doctor.name,
     qualifications |-> doctor.qualifications,
     registration_number |-> doctor.registrationNumber,
     contact_info |-> doctor.contactInfo]

ReferringDoctorRow(s, doctor, id) ==
    [id |-> id, diagnostic_center_id |-> diagnosticCenter[s], name |-> doctor.name,
     hospital_name |-> doctor.hospitalName, hospital_address |-> doctor.hospitalAddress,
     registration_number |-> doctor.registrationNumber,
     contact_info |-> doctor.contactInfo]

\* newPerformingDoctors.every((doctor) => doctor.name && ... )
AllFilled(doctors, fields) ==
    \A k \in 1..Len(doctors) : \A j \in 1..Len(fields) : doctors[k][fields[j]] # ""

\* The rows the store holds after the "Save" loop inserted the first
\* `done` doctors.
PerformingDoctorsAfterSave(s, done) ==
    performing_doctors \cup
        {PerformingDoctorRow(s, newPerformingDoctors[s][k],
                             GeneratedId("d", Cardinality(performing_doctors) + k)) :
           k \in 1..done}

ReferringDoctorsAfterSave(s, done) ==
    referring_doctors \cup
        {ReferringDoctorRow(s, newReferringDoctors[s][k],
                            GeneratedId("r", Cardinality(referring_doctors) + k)) :
           k \in 1..done}

\* "Save" in the performing-doctor panel.  The doctors are inserted one by
\* one; `done` of them are in the store when the loop ends or an insert is
\* rejected.
handleSubmitNewPerformingDoctors(s) ==
    /\ PanelShown(s)
    /\ showNewPerformingDoctor[s]
    /\ Len(newPerformingDoctors[s]) > 0
    /\ Cardinality(performing_doctors) <= MaxDoctors
    /\ IF ~AllFilled(newPerformingDoctors[s], PerformingFields)
       THEN /\ doctorSubmissionError' =
                 [doctorSubmissionError EXCEPT ![s] =
                    "Please fill all required fields for all doctors"]
            /\ UNCHANGED <<showNewPerformingDoctor, newPerformingDoctors,
                           performing_doctors>>
       ELSE \E done \in 0..Len(newPerformingDoctors[s]) :
              /\ performing_doctors' = PerformingDoctorsAfterSave(s, done)
              /\ IF done = Len(newPerformingDoctors[s])
                 THEN /\ newPerformingDoctors' = [newPerformingDoctors EXCEPT ![s] = <<>>]
                      /\ showNewPerformingDoctor' =
                           [showNewPerformingDoctor EXCEPT ![s] = FALSE]
                      /\ doctorSubmissionError' = [doctorSubmissionError EXCEPT ![s] = ""]
                 ELSE /\ doctorSubmissionError' =
                           [doctorSubmissionError EXCEPT ![s] =
                              "Failed to add doctors. Please try again."]
                      /\ UNCHANGED <<showNewPerformingDoctor, newPerformingDoctors>>
    /\ UNCHANGED <<diagnosticCenter, wizardVars, subs, storeVars, checkVars, authVars, rowVars, pageVars,
                   showNewReferringDoctor, newReferringDoctors, referring_doctors>>

\* The button next to the referring-doctor select.
ToggleReferringPanel(s) ==
    /\ PanelShown(s)
    /\ showNewReferringDoctor' = [showNewReferringDoctor EXCEPT ![s] = ~@]
    /\ newReferringDoctors' =
         [newReferringDoctors EXCEPT ![s] =
            IF ~showNewReferringDoctor[s] THEN Append(@, BlankReferringDoctor) ELSE <<>>]
    /\ UNCHANGED <<diagnosticCenter, wizardVars, subs, storeVars, checkVars, authVars, rowVars, pageVars,
                   showNewPerformingDoctor, newPerformingDoctors, doctorSubmissionError,
                   doctorTables>>

addNewReferringDoctor(s) ==
    /\ PanelShown(s)
    /\ showNewReferringDoctor[s]
    /\ Len(newReferringDoctors[s]) < MaxDoctors
    /\ newReferringDoctors' =
         [newReferringDoctors EXCEPT ![s] = Append(@, BlankReferringDoctor)]
    /\ UNCHANGED <<diagnosticCenter, wizardVars, subs, storeVars, checkVars, authVars, rowVars, pageVars,
                   showNewPerformingDoctor, newPerformingDoctors, showNewReferringDoctor,
                   doctorSubmissionError, doctorTables>>

removeNewReferringDoctor(s, index) ==
    /\ PanelShown(s)
    /\ showNewReferringDoctor[s]
    /\ index \in 1..Len(newReferringDoctors[s])
    /\ newReferringDoctors' = [newReferringDoctors EXCEPT ![s] = RemoveAt(@, index)]
    /\ UNCHANGED <<diagnosticCenter, wizardVars, subs, storeVars, checkVars, authVars, rowVars, pageVars,
                   showNewPerformingDoctor, newPerformingDoctors, showNewReferringDoctor,
                   doctorSubmissionError, doctorTables>>

updateNewReferringDoctor(s, index, field, value) ==
    /\ PanelShown(s)
    /\ showNewReferringDoctor[s]
    /\ index \in 1..Len(newReferringDoctors[s])
    /\ newReferringDoctors[s][index][field] # value
    /\ newReferringDoctors' = [newReferringDoctors EXCEPT ![s][index][field] = value]
    /\ UNCHANGED <<diagnosticCenter, wizardVars, subs, storeVars, checkVars, authVars, rowVars, pageVars,
                   showNewPerformingDoctor, newPerformingDoctors, showNewReferringDoctor,
                   doctorSubmissionError, doctorTables>>

\* "Save" in the referring-doctor panel.
handleSubmitNewReferringDoctors(s) ==
    /\ PanelShown(s)
    /\ showNewReferringDoctor[s]
    /\ Len(newReferringDoctors[s]) > 0
    /\ Cardinality(referring_doctors) <= MaxDoctors
    /\ IF ~AllFilled(newReferringDoctors[s], ReferringFields)
       THEN /\ doctorSubmissionError' =
                 [doctorSubmissionError EXCEPT ![s] =
                    "Please fill all required fields for all doctors"]
            /\ UNCHANGED <<showNewReferringDoctor, newReferringDoctors,
                           referring_doctors>>
       ELSE \E done \in 0..Len(newReferringDoctors[s]) :
              /\ referring_doctors' = ReferringDoctorsAfterSave(s, done)
              /\ IF done = Len(newReferringDoctors[s])
                 THEN /\ newReferringDoctors' = [newReferringDoctors EXCEPT ![s] = <<>>]
                      /\ showNewReferringDoctor' =
                           [showNewReferringDoctor EXCEPT ![s] = FALSE]
                      /\ doctorSubmissionError' = [doctorSubmissionError EXCEPT ![s] = ""]
                 ELSE /\ doctorSubmissionError' =
                           [doctorSubmissionError EXCEPT ![s] =
                              "Failed to add referring doctors. Please try again."]
                      /\ UNCHANGED <<showNewReferringDoctor, newReferringDoctors>>
    /\ UNCHANGED <<diagnosticCenter, wizardVars, subs, storeVars, checkVars, authVars, rowVars, pageVars,
                   showNewPerformingDoctor, newPerformingDoctors, performing_doctors>>

(***************************************************************************)
(* Final submit: handleSubmit(onSubmit) and the insert sequence            *)
(***************************************************************************)
\* if (data.children && data.children.length > 0)
ChildrenBatchIssued(data) == Len(data.children) > 0

\* if (data.selectedIndications.length > 0)
IndicationsBatchIssued(data) == Cardinality(data.selectedIndications) > 0

\* Changed sequence: the children batch is issued without looking at its length.
NextInsertAlwaysChildren(table, data) ==
    CASE table = "pregnant_women" -> "pregnancy_details"
      [] table = "pregnancy_details" -> "children"
      [] table = "children" -> "procedures"
      [] table = "procedures" ->
            IF IndicationsBatchIssued(data) THEN "procedure_indications" ELSE "consent"
      [] table = "procedure_indications" -> "consent"
      [] table = "consent" -> "navigate"

\* The insert onSubmit issues after the insert into `table` resolved
\* without error ("navigate" after the last one).
NextInsert(table, data) ==
    CASE table = "pregnant_women" -> "pregnancy_details"
      [] table = "pregnancy_details" ->
            IF ChildrenBatchIssued(data) THEN "children" ELSE "procedures"
      [] table = "children" -> "procedures"
      [] table = "procedures" ->
            IF IndicationsBatchIssued(data) THEN "procedure_indications" ELSE "consent"
      [] table = "procedure_indications" -> "consent"
      [] table = "consent" -> "navigate"

\* Changed error handling: a rejected insert is ignored and onSubmit goes on.
AfterRejectedInsertGoOn(table, data) == NextInsert(table, data)

\* What onSubmit does after an insert was rejected and thrown: the catch
\* block logs, raises the toast and returns.
AfterRejectedInsert(table, data) == "done"

\* Changed onSubmit: the consent check is missing.
SubmitAllowedUnchecked(s) == TRUE

\* if (!consentVerified) { setError("consentOtp", ...); return; }
SubmitAllowed(s) == consentVerified[s]

\* The Submit button: rendered on step 4, disabled={!consentVerified}
SubmitButtonEnabled(s) == step[s] = LastStep /\ consentVerified[s]

\* The form also receives a submit event when Enter is pressed in its only
\* text-like input while it shows no submit button: the procedure date of
\* step 3, whose buttons are all type="button".
\* An open panel with a doctor in it adds text inputs, and a form with
\* more than one such input is not submitted by Enter.
ImplicitSubmitPossible(s) ==
    /\ step[s] = 3
    /\ ~(showNewPerformingDoctor[s] /\ Len(newPerformingDoctors[s]) > 0)
    /\ ~(showNewReferringDoctor[s] /\ Len(newReferringDoctors[s]) > 0)

\* The values onSubmit reads from the data handleSubmit hands it.
SubmitData(v) ==
    [aadharNumber |-> v.aadharNumber,
     numberOfChildrenAlive |-> v.numberOfChildrenAlive,
     children |-> v.children,
     performingDoctorId |-> v.performingDoctorId,
     referringDoctorId |-> v.referringDoctorId,
     scanPerformed |-> v.scanPerformed,
     selectedIndications |-> v.selectedIndications,
     hasAadharRegisteredMobile |-> v.hasAadharRegisteredMobile,
     consentMobile |-> v.consentMobile]

\* An onSubmit invocation that passed the consent check and issued the
\* patient insert.
NewSub(s, data) ==
    [s |-> s, data |-> data, pc |-> "pregnant_women", outcome |-> "running",
     issued |-> <<"pregnant_women">>, rejected |-> <<>>,
     patientId |-> 0, pregnancyId |-> 0, procedureId |-> 0,
     created |-> {}, toasted |-> FALSE, navigated |-> FALSE]

\* handleSubmit validates every registered field, then calls onSubmit when
\* no error is left; onSubmit runs up to its first await.
HandleSubmit(s) ==
    /\ OnWizard(s)
    /\ SubmitAllowed(s) => Len(subs) < MaxSubmits
    /\ \E data \in AadharSelectSingle(s, form[s].aadharNumber) :
         LET errs == [f \in RuleFields |-> ValidateField(s, f, form[s], data)]
             valid == errs = NoErrors
             allowed == SubmitAllowed(s)
         IN  /\ isSubmitted' = [isSubmitted EXCEPT ![s] = TRUE]
             /\ IF valid
                THEN /\ aadharError' = [aadharError EXCEPT ![s] = ""]
                     /\ errors' = [errors EXCEPT ![s] =
                           IF allowed THEN errs
                           ELSE [errs EXCEPT !.consentOtp =
                                   "Please verify consent OTP before proceeding"]]
                     /\ subs' = IF allowed
                                THEN Append(subs, NewSub(s, SubmitData(form[s])))
                                ELSE subs
                ELSE /\ aadharError' = [aadharError EXCEPT ![s] =
                           AadharErrorAfterValidate(s, form[s], data, aadharError[s])]
                     /\ errors' = [errors EXCEPT ![s] = errs]
                     /\ UNCHANGED subs
    /\ UNCHANGED <<screenVars, diagnosticCenter, location, step, showConsentOtp, consentVerified,
                   form, storeVars>>

SubmitClick(s) == SubmitButtonEnabled(s) /\ HandleSubmit(s)

ImplicitSubmit(s) == ImplicitSubmitPossible(s) /\ HandleSubmit(s)

(***************************************************************************)
(* Rows written by onSubmit                                                *)
(***************************************************************************)
PatientRows(sub, id) ==
    {[id |-> id, diagnostic_center_id |-> diagnosticCenter[sub.s],
      aadhar_number |-> sub.data.aadharNumber]}

PregnancyRows(sub, id) ==
    {[id |-> id, pregnant_woman_id |-> sub.patientId,
      number_of_children_alive |-> sub.data.numberOfChildrenAlive]}

\* Changed mapping: as many child rows as numberOfChildrenAlive says.
ChildRowsUpToCount(sub, id) ==
    {[id |-> id + k - 1, pregnancy_details_id |-> sub.pregnancyId,
      gender |-> sub.data.children[k].gender,
      age_in_years |-> sub.data.children[k].ageInYears] :
        k \in {j \in 1..Len(sub.data.children) : j <= sub.data.numberOfChildrenAlive[1]}}

\* data.children.map((child) => ({ pregnancy_details_id: pregnancyData.id, ... }))
ChildRows(sub, id) ==
    {[id |-> id + k - 1, pregnancy_details_id |-> sub.pregnancyId,
      gender |-> sub.data.children[k].gender,
      age_in_years |-> sub.data.children[k].ageInYears] :
        k \in 1..Len(sub.data.children)}

ProcedureRows(sub, id) ==
    {[id |-> id, pregnant_woman_id |-> sub.patientId,
      attending_doctor_id |-> sub.data.performingDoctorId,
      referring_doctor_id |-> sub.data.referringDoctorId,
      scan_performed |-> sub.data.scanPerformed]}

\* Changed mapping: only the first selected indication gets a row.
IndicationRowsFirstOnly(sub, id) ==
    {[id |-> id, procedure_id |-> sub.procedureId, indication_type_id |-> x] :
        x \in {y \in sub.data.selectedIndications :
                  \A z \in sub.data.selectedIndications : y <= z}}

\* data.selectedIndications.map((indicationId) => ({ procedure_id: procedureData.id, ... }))
IndicationRows(sub, id) ==
    {[id |-> id + Cardinality({y \in sub.data.selectedIndications : y < x}),
      procedure_id |-> sub.procedureId, indication_type_id |-> x] :
        x \in sub.data.selectedIndications}

ConsentRows(sub, id) ==
    {[id |-> id, pregnant_woman_id |-> sub.patientId,
      mobile_number |-> sub.data.consentMobile, otp_verified |-> TRUE]}

RowsFor(table, sub, id) ==
    CASE table = "pregnant_women" -> PatientRows(sub, id)
      [] table = "pregnancy_details" -> PregnancyRows(sub, id)
      [] table = "children" -> ChildRows(sub, id)
      [] table = "procedures" -> ProcedureRows(sub, id)
      [] table = "procedure_indications" -> IndicationRows(sub, id)
      [] table = "consent" -> ConsentRows(sub, id)

\* The doctor selects offer the ids of the loaded doctors and the placeholder
\* option with value "".  The columns they are written to are of type UUID:
\* the store casts a doctor id and rejects the empty string.
IsUuid(x) == x # ""

\* attending_doctor_id UUID REFERENCES performing_doctors(id),
\* referring_doctor_id UUID REFERENCES referring_doctors(id)
ProcedureAccepted(data) ==
    /\ IsUuid(data.performingDoctorId)
    /\ IsUuid(data.referringDoctorId)
    /\ \E doctor \in performing_doctors : doctor.id = data.performingDoctorId
    /\ \E doctor \in referring_doctors : doctor.id = data.referringDoctorId

\* The answers the store can give to the insert sub is waiting for: the
\* unique constraint decides a patient insert; any round trip can fail for
\* another reason (network, policy, constraint).
InsertResults(sub) ==
    (IF sub.pc = "pregnant_women" /\ AadharUniqueViolation(sub.data.aadharNumber)
     THEN {"unique_aadhar"}
     ELSE IF sub.pc = "procedures" /\ ~ProcedureAccepted(sub.data)
     THEN {}
     ELSE {"ok"}) \cup {"other"}

\* Changed catch block: the rows the invocation created are deleted again.
TableRolledBack(rows, sub) ==
    {r \in rows : r.id \notin {c[2] : c \in sub.created}}

\* The catch block issues no statement: every table is left as it is.
TableAfterCatch(rows, sub) == rows

\* setStep(4) in the branch for the Aadhar uniqueness conflict
ConflictStep == 4

\* sub after its pending insert into sub.pc succeeded with the rows `rows`
SubAfterOk(sub, rows) ==
    LET nxt == NextInsert(sub.pc, sub.data)
        id  == (CHOOSE r \in rows : \A q \in rows : r.id <= q.id).id
    IN  [sub EXCEPT
           !.patientId = IF sub.pc = "pregnant_women" THEN id ELSE @,
           !.pregnancyId = IF sub.pc = "pregnancy_details" THEN id ELSE @,
           !.procedureId = IF sub.pc = "procedures" THEN id ELSE @,
           !.created = @ \cup {<<sub.pc, r.id>> : r \in rows},
           !.pc = IF nxt = "navigate" THEN "done" ELSE nxt,
           !.outcome = IF nxt = "navigate" THEN "navigated" ELSE @,
           !.navigated = (nxt = "navigate"),
           !.issued = IF nxt = "navigate" THEN @ ELSE Append(@, nxt)]

\* sub after its pending insert was rejected and the error thrown
SubAfterThrow(sub) ==
    LET nxt == AfterRejectedInsert(sub.pc, sub.data)
    IN  [sub EXCEPT
           !.rejected = Append(@, sub.pc),
           !.toasted = TRUE,
           !.pc = IF nxt \in {"done", "navigate"} THEN "done" ELSE nxt,
           !.outcome = IF nxt = "navigate" THEN "navigated" ELSE "failed",
           !.navigated = (nxt = "navigate"),
           !.issued = IF nxt \in {"done", "navigate"} THEN @ ELSE Append(@, nxt)]

\* sub after the patient insert was rejected with code 23505 on aadhar_number
SubAfterConflict(sub) ==
    [sub EXCEPT !.rejected = Append(@, sub.pc), !.pc = "done", !.outcome = "conflict"]

\* The pending insert of the i-th onSubmit invocation resolves, and onSubmit
\* runs on to its next await or to its end.
InsertResolves(i) ==
    /\ i \in 1..Len(subs)
    /\ subs[i].pc # "done"
    /\ \E result \in InsertResults(subs[i]) :
         LET sub == subs[i]
             s == sub.s
             rows == IF result = "ok" THEN RowsFor(sub.pc, sub, nextId) ELSE {}
             new == CASE result = "ok" -> SubAfterOk(sub, rows)
                      [] result = "unique_aadhar" -> SubAfterConflict(sub)
                      [] result = "other" -> SubAfterThrow(sub)
             keep(tbl, name) ==
                 IF sub.pc = name /\ result = "ok" THEN tbl \cup rows
                 ELSE IF result = "other" THEN TableAfterCatch(tbl, sub)
                 ELSE tbl
         IN  /\ subs' = [subs EXCEPT ![i] = new]
             /\ pregnant_women' = keep(pregnant_women, "pregnant_women")
             /\ pregnancy_details' = keep(pregnancy_details, "pregnancy_details")
             /\ children' = keep(children, "children")
             /\ procedures' = keep(procedures, "procedures")
             /\ procedure_indications' = keep(procedure_indications, "procedure_indications")
             /\ consent' = keep(consent, "consent")
             /\ nextId' = nextId + Cardinality(rows)
             /\ aadharError' =
                  [aadharError EXCEPT ![s] =
                     IF result = "unique_aadhar" /\ OnWizard(s)
                     THEN "This Aadhar number is already registered in the system"
                     ELSE @]
             /\ step' = [step EXCEPT ![s] =
                           IF result = "unique_aadhar" /\ OnWizard(s)
                           THEN ConflictStep ELSE @]
             /\ location' = [location EXCEPT ![s] =
                               IF new.navigated THEN "/dashboard" ELSE @]
    /\ UNCHANGED <<screenVars, diagnosticCenter, showConsentOtp, consentVerified, form, errors,
                   isSubmitted>>

(***************************************************************************)
(* Specifications                                                          *)
(***************************************************************************)
Good10 == <<"9">> \o Rep("0", 9)
Aadhar1 == Rep("1", 12)
Aadhar2 == Rep("2", 12)

Bad10 == Rep("1", 10)
Short11 == Rep("1", 11)
WrongOtp == Rep("0", 6)

\* One wizard of center c1 (session s1) and one of center c2 (session s2).
TwoCenters == {[s \in Sessions |-> IF s = "s1" THEN "c1" ELSE "c2"]}

\* Two wizards of the same center, or of two centers.
AnyCenters == TwoCenters \cup {[s \in Sessions |-> "c1"]}

\* Field edits with values drawn from the record In (field -> set of values).
EditStep(s, In) == \E f \in DOMAIN In : \E v \in In[f] : EditField(s, f, v)

ChildStep(s) ==
    \/ addChild(s)
    \/ \E k \in 1..MaxChildren : removeChild(s, k)

GateStep(s) ==
    \/ handleSendConsentOtp(s)
    \/ handleVerifyConsentOtp(s)

StoreStep == \E i \in 1..MaxSubmits : InsertResolves(i)

(***************************************************************************)
(* Spec: one wizard is filled in front to back with valid values and       *)
(* submitted up to MaxSubmits times; every insert succeeds or is rejected. *)
(***************************************************************************)
SubmitInputs ==
    [aadharNumber |-> {Aadhar1},
     performingDoctorId |-> {"d1"},
     referringDoctorId |-> {"r1"},
     numberOfChildrenAlive |-> {<<1>>},
     selectedIndications |-> {{1}, {1, 2}},
     hasAadharRegisteredMobile |-> {"true"},
     consentMobile |-> {Good10},
     consentOtp |-> {FixedOtp}]

Init == InitWith(TwoCenters)

Next ==
    \/ Continue("s1")
    \/ EditStep("s1", SubmitInputs)
    \/ ChildStep("s1")
    \/ GateStep("s1")
    \/ SubmitClick("s1")
    \/ StoreStep

Spec == Init /\ [][Next]_vars

(***************************************************************************)
(* SpecGate: the consent gate with right and wrong codes, submit events    *)
(* before and after verification, moving back and forth.                   *)
(***************************************************************************)
GateInputs ==
    [performingDoctorId |-> {"d1"},
     referringDoctorId |-> {"r1"},
     scanPerformed |-> {"scan1"},
     hasAadharRegisteredMobile |-> {"true", "false"},
     consentMobile |-> {Good10, Bad10},
     consentOtp |-> {FixedOtp, WrongOtp}]

NextGate ==
    \/ Continue("s1")
    \/ Previous("s1")
    \/ EditStep("s1", GateInputs)
    \/ GateStep("s1")
    \/ ImplicitSubmit("s1")
    \/ SubmitClick("s1")
    \/ StoreStep

SpecGate == Init /\ [][NextGate]_vars

(***************************************************************************)
(* SpecNav: moving between the steps with valid, invalid and empty fields. *)
(***************************************************************************)
NavInputs ==
    [name |-> {<<"A">>, <<"A", "b">>},
     age |-> {<<>>, <<17>>},
     contactNumber |-> {Good10, Bad10},
     lastMenstrualPeriod |-> {<<[y |-> 2025, m |-> 6, d |-> 1]>>,
                              <<[y |-> 2025, m |-> 1, d |-> 1]>>},
     performingDoctorId |-> {"d1"},
     referringDoctorId |-> {"r1"},
     scanPerformed |-> {"scan1"}]

NextNav ==
    \/ Continue("s1")
    \/ Previous("s1")
    \/ \E k \in 1..LastStep : SidebarClick("s1", k)
    \/ BackToHome("s1")
    \/ EditStep("s1", NavInputs)
    \/ ImplicitSubmit("s1")

SpecNav == Init /\ [][NextNav]_vars

(***************************************************************************)
(* SpecBack: going back by Previous and by the sidebar from every step,    *)
(* with the consent gate in each of its states and with field errors.      *)
(***************************************************************************)
BackInputs ==
    [name |-> {<<"A">>, <<"A", "b">>},
     performingDoctorId |-> {"d1"},
     hasAadharRegisteredMobile |-> {"true"},
     consentMobile |-> {Good10},
     consentOtp |-> {FixedOtp, WrongOtp}]

NextBack ==
    \/ Continue("s1")
    \/ Previous("s1")
    \/ \E k \in 1..LastStep : SidebarClick("s1", k)
    \/ EditStep("s1", BackInputs)
    \/ GateStep("s1")
    \/ ImplicitSubmit("s1")

SpecBack == Init /\ [][NextBack]_vars

(***************************************************************************)
(* SpecAadhar: the wizard s2, of the same center as s1 or of another one,   *)
(* registers patients while the wizard s1 has its Aadhar field validated.  *)
(***************************************************************************)
InitAadhar == InitWith(AnyCenters)

AadharInputs == [aadharNumber |-> {Aadhar1, Aadhar2, Short11}]

RegisterInputs ==
    [aadharNumber |-> {Aadhar1},
     hasAadharRegisteredMobile |-> {"true"},
     consentMobile |-> {Good10},
     consentOtp |-> {FixedOtp}]

NextAadhar ==
    \/ Continue("s1")
    \/ Previous("s1")
    \/ ImplicitSubmit("s1")
    \/ EditStep("s1", AadharInputs)
    \/ Continue("s2")
    \/ EditStep("s2", RegisterInputs)
    \/ GateStep("s2")
    \/ SubmitClick("s2")
    \/ StoreStep

SpecAadhar == InitAadhar /\ [][NextAadhar]_vars

(***************************************************************************)
(* SpecRace: two wizards, of one center or of two, register the same       *)
(* Aadhar number.                                                          *)
(***************************************************************************)
InitRace == InitWith(AnyCenters)

NextRace ==
    \/ \E s \in Sessions :
         \/ Continue(s)
         \/ EditStep(s, RegisterInputs)
         \/ GateStep(s)
         \/ SubmitClick(s)
    \/ StoreStep

SpecRace == InitRace /\ [][NextRace]_vars

(***************************************************************************)
(* SpecDoctors: the wizard is walked through and submitted while doctors   *)
(* are entered, removed and saved in the two "Add New" panels of step 3.   *)
(* The fields of an entered doctor are typed top to bottom.                *)
(***************************************************************************)
DoctorInputs ==
    [performingDoctorId |-> {"d1"},
     hasAadharRegisteredMobile |-> {"true"},
     consentMobile |-> {Good10},
     consentOtp |-> {FixedOtp}]

TypedNext(doctor, fields, j) == \A i \in 1..(j - 1) : doctor[fields[i]] # ""

PerformingPanelStep(s) ==
    \/ TogglePerformingPanel(s)
    \/ addNewPerformingDoctor(s)
    \/ \E k \in 1..MaxDoctors : removeNewPerformingDoctor(s, k)
    \/ \E k \in 1..MaxDoctors : \E j \in 1..Len(PerformingFields) :
         /\ k <= Len(newPerformingDoctors[s])
         /\ TypedNext(newPerformingDoctors[s][k], PerformingFields, j)
         /\ updateNewPerformingDoctor(s, k, PerformingFields[j], "x")
    \/ handleSubmitNewPerformingDoctors(s)

ReferringPanelStep(s) ==
    \/ ToggleReferringPanel(s)
    \/ addNewReferringDoctor(s)
    \/ \E k \in 1..MaxDoctors : removeNewReferringDoctor(s, k)
    \/ \E k \in 1..MaxDoctors : \E j \in 1..Len(ReferringFields) :
         /\ k <= Len(newReferringDoctors[s])
         /\ TypedNext(newReferringDoctors[s][k], ReferringFields, j)
         /\ updateNewReferringDoctor(s, k, ReferringFields[j], "x")
    \/ handleSubmitNewReferringDoctors(s)

NextDoctors ==
    \/ Continue("s1")
    \/ Previous("s1")
    \/ EditStep("s1", DoctorInputs)
    \/ PerformingPanelStep("s1")
    \/ ReferringPanelStep("s1")
    \/ GateStep("s1")
    \/ SubmitClick("s1")
    \/ StoreStep

SpecDoctors == Init /\ [][NextDoctors]_vars

\* C18: as long as the wizard has not been submitted, the store holds what
\* it held when the wizard was opened: moving between the steps, editing
\* fields, entering and saving doctors and the consent exchange write
\* nothing.
C18_NoWriteBeforeSubmit ==
    subs = <<>> =>
        /\ performing_doctors = RegisteredPerformingDoctors
        /\ referring_doctors = RegisteredReferringDoctors
        /\ pregnant_women = {} /\ pregnancy_details = {} /\ children = {}
        /\ procedures = {} /\ procedure_indications = {}

\* C18 without the two doctor tables: no patient, pregnancy, child,
\* procedure or indication row is written before the wizard is submitted.
C18_NoPatientWriteBeforeSubmit ==
    subs = <<>> =>
        /\ pregnant_women = {} /\ pregnancy_details = {} /\ children = {}
        /\ procedures = {} /\ procedure_indications = {}

(***************************************************************************)
(* AuthProvider (contexts/AuthContext.tsx) and SpecAuth: every sequence of *)
(* up to MaxOps calls of login and logout.                                 *)
(***************************************************************************)
\* setIsAuthenticated(true); setDiagnosticCenter(center)
AfterLogin(a, center) == [isAuthenticated |-> TRUE, diagnosticCenter |-> center]

AfterLogoutKeepCenter(a) == [a EXCEPT !.isAuthenticated = FALSE]

\* setIsAuthenticated(false); setDiagnosticCenter(null)
AfterLogout(a) == [isAuthenticated |-> FALSE, diagnosticCenter |-> <<>>]

login(center) ==
    /\ Len(authOps) < MaxOps
    /\ auth' = AfterLogin(auth, center)
    /\ authOps' = Append(authOps, [op |-> "login", center |-> center])
    /\ UNCHANGED <<diagnosticCenter, wizardVars, subs, storeVars, checkVars, doctorVars,
                   rowVars, pageVars>>

logout ==
    /\ Len(authOps) < MaxOps
    /\ auth' = AfterLogout(auth)
    /\ authOps' = Append(authOps, [op |-> "logout", center |-> <<>>])
    /\ UNCHANGED <<diagnosticCenter, wizardVars, subs, storeVars, checkVars, doctorVars,
                   rowVars, pageVars>>

\* Header: logout(); navigate('/')
Header_handleLogout ==
    /\ Len(authOps) < MaxOps
    /\ auth' = AfterLogout(auth)
    /\ authOps' = Append(authOps, [op |-> "handleLogout", center |-> <<>>])
    /\ UNCHANGED <<diagnosticCenter, wizardVars, subs, storeVars, checkVars, doctorVars,
                   rowVars, pageVars>>

\* The centers login is called with: a center row, or null.
LoginCenters == {<<>>, <<"c1">>, <<"c2">>}

NextAuth ==
    \/ \E center \in LoginCenters : login(center)
    \/ logout
    \/ Header_handleLogout

SpecAuth == Init /\ [][NextAuth]_vars

NonNullLogins ==
    \A k \in 1..Len(authOps) : authOps[k].op = "login" => authOps[k].center # <<>>

\* C19: after any sequence of login and logout calls whose logins carry a
\* center, isAuthenticated is true exactly when diagnosticCenter is not
\* null; the state is the initial one (false, null) before any call, (true,
\* c) after login(c) and (false, null) after logout.
C19_AuthenticatedIffCenter ==
    NonNullLogins =>
        /\ auth.isAuthenticated <=> auth.diagnosticCenter # <<>>
        /\ IF authOps = <<>>
           THEN auth = [isAuthenticated |-> FALSE, diagnosticCenter |-> <<>>]
           ELSE LET last == authOps[Len(authOps)]
                IN  IF last.op = "login"
                    THEN auth = [isAuthenticated |-> TRUE, diagnosticCenter |-> last.center]
                    ELSE auth = [isAuthenticated |-> FALSE, diagnosticCenter |-> <<>>]

\* A center logs in, logs out through the header, and another center logs in.
C19_Witness ==
    /\ Len(authOps) = 3
    /\ authOps[1] = [op |-> "login", center |-> <<"c1">>]
    /\ authOps[2].op = "handleLogout"
    /\ authOps[3] = [op |-> "login", center |-> <<"c2">>]
    /\ auth.isAuthenticated
    /\ auth.diagnosticCenter = <<"c2">>

\* Logged out after having been logged in.
C19_WitnessLoggedOut ==
    /\ Len(authOps) = 2
    /\ authOps[1] = [op |-> "login", center |-> <<"c1">>]
    /\ authOps[2].op = "logout"
    /\ ~auth.isAuthenticated
    /\ auth.diagnosticCenter = <<>>

(***************************************************************************)
(* Register.handleSubmit: sign-up, center row, doctor rows, sign-in        *)
(***************************************************************************)
EnteredPerformingDoctor ==
    [name |-> "x", qualifications |-> "x", registrationNumber |-> "x", contactInfo |-> "x"]

EnteredReferringDoctor ==
    [name |-> "x", hospitalName |-> "x", hospitalAddress |-> "x",
     registrationNumber |-> "x", contactInfo |-> "x"]

\* The mobile numbers entered on step 1: a new one, that of a registered
\* center, and one the pattern rejects.
RegisterPhones == {<<"7">> \o Rep("0", 9), <<"9">> \o Rep("0", 9), <<"1", "2">>}

\* The codes entered on step 2.
RegisterOtps == {FixedOtp, WrongOtp, <<"1", "2", "3">>}

\* String.prototype.trim on a sequence of characters
RECURSIVE Trim(_)
Trim(s) ==
    IF s = <<>> THEN <<>>
    ELSE IF Head(s) = " " THEN Trim(Tail(s))
    ELSE IF s[Len(s)] = " " THEN Trim(SubSeq(s, 1, Len(s) - 1))
    ELSE s

\* The registration forms submitted on step 3: the center name empty, blank,
\* filled or filled with a trailing blank, the other center fields valid; no performing doctor, one with
\* empty fields, one filled in; with and without a referring doctor.
RegistrationInputs ==
    [phoneNumber : {p \in RegisterPhones : Register_validatePhoneNumber(p)},
     name : {<<>>, <<" ">>, <<"A">>, <<"A", " ">>},
     performingDoctors : {<<>>, <<BlankPerformingDoctor>>, <<EnteredPerformingDoctor>>},
     referringDoctors : {<<>>, <<EnteredReferringDoctor>>}]

\* validateDoctors: at least one performing doctor, all of its fields filled
validateDoctors(formData) ==
    /\ Len(formData.performingDoctors) > 0
    /\ AllFilled(formData.performingDoctors, PerformingFields)

\* useState<FormErrors>({}): the keys the entered forms can set; "" is an
\* absent key.
NoFormErrors == [phoneNumber |-> "", name |-> "", performingDoctors |-> ""]

\* setFormErrors(value)
Replace(value) == [op |-> "replace", key |-> "", msg |-> "", value |-> value]

\* setFormErrors(prev => ({ ...prev, [key]: msg }))
Spread(key, msg) == [op |-> "spread", key |-> key, msg |-> msg, value |-> NoFormErrors]

\* React applies the queued updates of one handler in the order of the calls.
RECURSIVE ApplyUpdates(_, _)
ApplyUpdates(prev, queue) ==
    IF queue = <<>> THEN prev
    ELSE LET u == Head(queue)
         IN  ApplyUpdates(IF u.op = "replace" THEN u.value
                          ELSE [prev EXCEPT ![u.key] = u.msg],
                          Tail(queue))

\* The updates validateDoctors queues.
validateDoctorsUpdates(formData) ==
    IF Len(formData.performingDoctors) = 0
    THEN <<Spread("performingDoctors", "At least one performing doctor is required")>>
    ELSE IF ~AllFilled(formData.performingDoctors, PerformingFields)
    THEN <<Spread("performingDoctors", "All performing doctor fields are required")>>
    ELSE <<>>

\* The local `errors` object of validateForm.
validateFormErrors(formData) ==
    [NoFormErrors EXCEPT
       !.name = IF Trim(formData.name) = <<>> THEN "Center name is required" ELSE ""]

\* validateForm's return value
validateForm(formData) ==
    /\ validateFormErrors(formData) = NoFormErrors
    /\ validateDoctors(formData)

\* The setFormErrors calls of handleSubmit: setFormErrors({}), those of
\* validateDoctors, and validateForm's closing setFormErrors(errors).
handleSubmitUpdates(formData) ==
    <<Replace(NoFormErrors)>>
    \o validateDoctorsUpdates(formData)
    \o <<Replace(validateFormErrors(formData))>>

\* Step 1: handleSendOtp
Register_handleSendOtp(phones) ==
    /\ registration.step = 1
    /\ \E phone \in phones :
         registration' =
            [registration EXCEPT
               !.phoneNumber = phone,
               !.error = "",
               !.formErrors =
                  IF Register_validatePhoneNumber(phone) THEN NoFormErrors
                  ELSE [NoFormErrors EXCEPT !.phoneNumber =
                          "Please enter a valid 10-digit mobile number starting with 6-9"],
               !.step = IF Register_validatePhoneNumber(phone) THEN 2 ELSE 1]
    /\ UNCHANGED <<diagnosticCenter, wizardVars, subs, storeVars, checkVars, doctorVars,
                   authVars, auth_users, diagnostic_centers, edit, deleteRequests,
                   pageVars>>

\* Step 2: handleVerifyOtp
Register_handleVerifyOtp(otps) ==
    /\ registration.step = 2
    /\ \E otp \in otps :
         registration' =
            [registration EXCEPT
               !.error = IF Len(otp) # 6 THEN "Please enter a valid 6-digit OTP"
                         ELSE IF otp = FixedOtp THEN "" ELSE "Invalid OTP",
               !.step = IF otp = FixedOtp THEN 3 ELSE 2]
    /\ UNCHANGED <<diagnosticCenter, wizardVars, subs, storeVars, checkVars, doctorVars,
                   authVars, auth_users, diagnostic_centers, edit, deleteRequests,
                   pageVars>>

\* Step 3: handleSubmit up to its first await: validateForm, then auth.signUp
Register_handleSubmit(inputs) ==
    /\ registration.step = 3
    /\ registration.pc \in {"idle", "done", "failed"}
    /\ registration.runs < MaxRegistrations
    /\ \E formData \in inputs :
         /\ formData.phoneNumber = registration.phoneNumber
         /\ registration' =
              [registration EXCEPT
                 !.pc = IF validateForm(formData) THEN "signUp" ELSE "idle",
                 !.runs = IF validateForm(formData) THEN @ + 1 ELSE @,
                 !.user = "",
                 !.form = <<formData>>,
                 !.error = "",
                 !.formErrors = ApplyUpdates(@, handleSubmitUpdates(formData)),
                 !.issued = IF validateForm(formData) THEN <<"signUp">> ELSE <<>>,
                 !.succeeded = <<>>,
                 !.navigated = FALSE]
    /\ UNCHANGED <<diagnosticCenter, wizardVars, subs, storeVars, checkVars, doctorVars,
                   authVars, auth_users, diagnostic_centers, edit, deleteRequests,
                   pageVars>>

\* The request handleSubmit issues after the request `pc` resolved without
\* error.
NextRegisterRequest(pc, formData) ==
    CASE pc = "signUp" -> "diagnostic_centers"
      [] pc = "diagnostic_centers" -> "performing_doctors"
      [] pc = "performing_doctors" ->
            IF Len(formData.referringDoctors) > 0 THEN "referring_doctors" ELSE "signIn"
      [] pc = "referring_doctors" -> "signIn"
      [] pc = "signIn" -> "done"
      [] pc = "deleteUser" -> "failed"

\* Changed handler: the auth user is also removed when the performing-doctors
\* insert fails.
AfterRegisterErrorAlsoDoctors(pc) ==
    IF pc \in {"diagnostic_centers", "performing_doctors"} THEN "deleteUser" ELSE "failed"

\* if (centerError) { await supabase.auth.admin.deleteUser(authData.user.id); throw centerError; }
AfterRegisterError(pc) == IF pc = "diagnostic_centers" THEN "deleteUser" ELSE "failed"

\* The request the pending registration waits for resolves.  The auth
\* provider may carry out the deleteUser call or refuse it.
RegisterResolves ==
    /\ registration.pc \in {"signUp", "diagnostic_centers", "deleteUser",
                            "performing_doctors", "referring_doctors", "signIn"}
    /\ \E ok \in BOOLEAN :
         LET pc == registration.pc
             formData == registration.form[1]
             user == IF pc = "signUp"
                     THEN GeneratedId("c", Cardinality(auth_users) + 1)
                     ELSE registration.user
             next == IF ok \/ pc = "deleteUser"
                     THEN NextRegisterRequest(pc, formData)
                     ELSE AfterRegisterError(pc)
         IN  /\ registration' =
                  [registration EXCEPT
                     !.pc = next,
                     !.user = IF pc = "signUp" /\ ~ok THEN "" ELSE user,
                     !.error = IF next = "failed"
                               THEN "Failed to register. Please try again." ELSE @,
                     !.issued = IF next \in {"done", "failed"} THEN @ ELSE Append(@, next),
                     !.succeeded = IF ok THEN Append(@, pc) ELSE @,
                     !.navigated = pc = "signIn" /\ ok]
             /\ auth_users' =
                  CASE pc = "signUp" /\ ok -> auth_users \cup {user}
                    [] pc = "deleteUser" /\ ok -> auth_users \ {user}
                    [] OTHER -> auth_users
             /\ diagnostic_centers' =
                  IF pc = "diagnostic_centers" /\ ok
                  THEN diagnostic_centers \cup
                       {[id |-> user, phone_number |-> formData.phoneNumber]}
                  ELSE diagnostic_centers
             /\ performing_doctors' =
                  IF pc = "performing_doctors" /\ ok
                  THEN performing_doctors \cup
                       {[id |-> GeneratedId("d", Cardinality(performing_doctors) + k),
                         diagnostic_center_id |-> user,
                         name |-> formData.performingDoctors[k].name,
                         qualifications |-> formData.performingDoctors[k].qualifications,
                         registration_number |-> formData.performingDoctors[k].registrationNumber,
                         contact_info |-> formData.performingDoctors[k].contactInfo] :
                           k \in 1..Len(formData.performingDoctors)}
                  ELSE performing_doctors
             /\ referring_doctors' =
                  IF pc = "referring_doctors" /\ ok
                  THEN referring_doctors \cup
                       {[id |-> GeneratedId("r", Cardinality(referring_doctors) + k),
                         diagnostic_center_id |-> user,
                         name |-> formData.referringDoctors[k].name,
                         hospital_name |-> formData.referringDoctors[k].hospitalName,
                         hospital_address |-> formData.referringDoctors[k].hospitalAddress,
                         registration_number |-> formData.referringDoctors[k].registrationNumber,
                         contact_info |-> formData.referringDoctors[k].contactInfo] :
                           k \in 1..Len(formData.referringDoctors)}
                  ELSE referring_doctors
             /\ deleteRequests' =
                  IF next = "deleteUser"
                  THEN deleteRequests \cup {[target |-> "auth.users", key |-> user]}
                  ELSE deleteRequests
             /\ auth' = IF pc = "signIn" /\ ok THEN AfterLogin(auth, <<user>>) ELSE auth
             /\ authOps' = IF pc = "signIn" /\ ok
                           THEN Append(authOps, [op |-> "login", center |-> <<user>>])
                           ELSE authOps
    /\ UNCHANGED <<diagnosticCenter, wizardVars, subs, storeVars, checkVars, panelVars, edit,
                   pageVars>>

(***************************************************************************)
(* EditPatientModal.handleSubmit: updates, new children, indications       *)
(***************************************************************************)
\* What the modal can be saved with: the number of children, a child added
\* in the modal or none, the scan and the ticked indications.
EditInputs ==
    [number_of_children_alive : {<<2>>},
     newChildren : {<<>>, <<DefaultChild>>},
     scan_performed : {"scan1"},
     procedure_indications : {{}, {2, 3}}]

\* The patients the modal can be opened for: those with a pregnancy row
\* and a procedure row.
Editable ==
    {p \in pregnant_women :
        /\ \E pd \in pregnancy_details : pd.pregnant_woman_id = p.id
        /\ \E proc \in procedures : proc.pregnant_woman_id = p.id}

PregnancyOf(patientId) ==
    CHOOSE pd \in pregnancy_details : pd.pregnant_woman_id = patientId

ProcedureOf(patientId) ==
    CHOOSE proc \in procedures : proc.pregnant_woman_id = patientId

\* The form of the modal is rendered: loading ? ... : error ? ... : <form>
EditFormShown == editModal.isOpen /\ editModal.error = ""

\* PatientDetails: onClick={() => setShowEditModal(true)}
PatientDetails_openEdit ==
    /\ ~editModal.isOpen
    /\ Editable # {}
    /\ editModal' = [editModal EXCEPT !.isOpen = TRUE]
    /\ UNCHANGED <<diagnosticCenter, wizardVars, subs, storeVars, checkVars, doctorVars,
                   authVars, rowVars, loginVars, dashboard>>

\* The X button of the modal: onClose, i.e. setShowEditModal(false)
EditPatientModal_close ==
    /\ editModal.isOpen
    /\ editModal' = [editModal EXCEPT !.isOpen = FALSE]
    /\ UNCHANGED <<diagnosticCenter, wizardVars, subs, storeVars, checkVars, doctorVars,
                   authVars, rowVars, loginVars, dashboard>>

\* setShowConsentOtp(true); the button is rendered while !showConsentOtp
EditPatientModal_handleSendConsentOtp ==
    /\ EditFormShown
    /\ ~editModal.showConsentOtp
    /\ editModal' = [editModal EXCEPT !.showConsentOtp = TRUE]
    /\ UNCHANGED <<diagnosticCenter, wizardVars, subs, storeVars, checkVars, doctorVars,
                   authVars, rowVars, loginVars, dashboard>>

\* The code input of the modal, rendered while showConsentOtp && !consentVerified;
\* it has neither value nor onChange: what is typed stays in the input.
EditPatientModal_typeOtp(v) ==
    /\ EditFormShown
    /\ editModal.showConsentOtp /\ ~editModal.consentVerified
    /\ editModal.otp # v
    /\ editModal' = [editModal EXCEPT !.otp = v]
    /\ UNCHANGED <<diagnosticCenter, wizardVars, subs, storeVars, checkVars, doctorVars,
                   authVars, rowVars, loginVars, dashboard>>

\* handleVerifyConsentOtp does not read the code.
ModalOtpAccepted(otp) == TRUE

\* setConsentVerified(true)
EditPatientModal_handleVerifyConsentOtp ==
    /\ EditFormShown
    /\ editModal.showConsentOtp /\ ~editModal.consentVerified
    /\ ModalOtpAccepted(editModal.otp)
    /\ editModal' = [editModal EXCEPT !.consentVerified = TRUE]
    /\ UNCHANGED <<diagnosticCenter, wizardVars, subs, storeVars, checkVars, doctorVars,
                   authVars, rowVars, loginVars, dashboard>>

\* Save Changes: disabled={saving || !consentVerified}
SaveChangesEnabled == EditFormShown /\ ~editModal.saving /\ editModal.consentVerified

\* The indication ids stored for the procedure of a patient.
StoredIndications(patientId) ==
    {r.indication_type_id :
        r \in {q \in procedure_indications :
                 \E proc \in procedures :
                    proc.pregnant_woman_id = patientId /\ q.procedure_id = proc.id}}

\* handleSubmit up to its first await: setSaving(true), setError(null), the
\* pregnancy_details update
EditPatientModal_handleSubmit ==
    /\ SaveChangesEnabled
    /\ edit.pc \in {"idle", "done", "failed"}
    /\ edit.runs < MaxEdits
    /\ \E p \in Editable : \E formData \in EditInputs :
         edit' = [pc |-> "pregnancy_details", runs |-> edit.runs + 1, patientId |-> p.id,
                  form |-> <<formData>>, error |-> "",
                  issued |-> <<"pregnancy_details">>, succeeded |-> <<>>,
                  before |-> StoredIndications(p.id)]
    /\ editModal' = [editModal EXCEPT !.saving = TRUE, !.error = ""]
    /\ UNCHANGED <<diagnosticCenter, wizardVars, subs, storeVars, checkVars, doctorVars,
                   authVars, auth_users, diagnostic_centers, registration, deleteRequests,
                   loginVars, dashboard>>

\* The request handleSubmit issues after the request `pc` resolved without
\* error.
NextEditRequest(pc, formData) ==
    CASE pc = "pregnancy_details" ->
            IF Len(formData.newChildren) > 0 THEN "children" ELSE "procedures"
      [] pc = "children" -> "procedures"
      [] pc = "procedures" -> "delete_indications"
      [] pc = "delete_indications" ->
            IF Cardinality(formData.procedure_indications) > 0
            THEN "insert_indications" ELSE "consent"
      [] pc = "insert_indications" -> "consent"
      [] pc = "consent" -> "done"

\* Changed handler: a rejected statement is ignored and the handler goes on.
AfterRejectedStatementGoOn(pc, formData) == NextEditRequest(pc, formData)

\* A rejected statement is thrown: the catch block sets the error and
\* issues nothing.
AfterRejectedStatement(pc, formData) == "failed"

\* Changed modal: the existing indication rows are left in place.
IndicationsAfterDeleteKeepAll(rows, procedureId) == rows

\* .from('procedure_indications').delete().eq('procedure_id', proc.id)
IndicationsAfterDelete(rows, procedureId) == {r \in rows : r.procedure_id # procedureId}

\* The request the pending save waits for resolves; an error is thrown to
\* the catch block, which reports it and issues nothing.
EditResolves ==
    /\ edit.pc \in {"pregnancy_details", "children", "procedures", "delete_indications",
                    "insert_indications", "consent"}
    /\ \E ok \in BOOLEAN :
         LET pc == edit.pc
             formData == edit.form[1]
             pd == PregnancyOf(edit.patientId)
             proc == ProcedureOf(edit.patientId)
             next == IF ok THEN NextEditRequest(pc, formData)
                     ELSE AfterRejectedStatement(pc, formData)
             childRows ==
                 {[id |-> nextId + k - 1, pregnancy_details_id |-> pd.id,
                   gender |-> formData.newChildren[k].gender,
                   age_in_years |-> formData.newChildren[k].ageInYears] :
                     k \in 1..Len(formData.newChildren)}
             indicationRows ==
                 {[id |-> nextId + Cardinality({y \in formData.procedure_indications : y < x}),
                   procedure_id |-> proc.id, indication_type_id |-> x] :
                     x \in formData.procedure_indications}
         IN  /\ edit' = [edit EXCEPT
                            !.pc = next,
                            !.error = IF ok THEN @ ELSE "Failed to save changes",
                            !.succeeded = IF ok THEN Append(@, pc) ELSE @,
                            !.issued = IF next \in {"done", "failed"} THEN @
                                       ELSE Append(@, next)]
             /\ editModal' =
                  CASE next = "done" ->
                         [editModal EXCEPT !.saving = FALSE, !.isOpen = FALSE,
                                           !.updates = @ + 1]
                    [] next = "failed" ->
                         [editModal EXCEPT !.saving = FALSE,
                                           !.error = "Failed to save changes"]
                    [] OTHER -> editModal
             /\ pregnancy_details' =
                  IF pc = "pregnancy_details" /\ ok
                  THEN (pregnancy_details \ {pd}) \cup
                       {[pd EXCEPT !.number_of_children_alive = formData.number_of_children_alive]}
                  ELSE pregnancy_details
             /\ children' = IF pc = "children" /\ ok THEN children \cup childRows
                            ELSE children
             /\ procedures' =
                  IF pc = "procedures" /\ ok
                  THEN (procedures \ {proc}) \cup
                       {[proc EXCEPT !.scan_performed = formData.scan_performed]}
                  ELSE procedures
             /\ procedure_indications' =
                  CASE pc = "delete_indications" /\ ok ->
                         IndicationsAfterDelete(procedure_indications, proc.id)
                    [] pc = "insert_indications" /\ ok ->
                         procedure_indications \cup indicationRows
                    [] OTHER -> procedure_indications
             /\ nextId' =
                  CASE pc = "children" /\ ok -> nextId + Cardinality(childRows)
                    [] pc = "insert_indications" /\ ok -> nextId + Cardinality(indicationRows)
                    [] OTHER -> nextId
             /\ deleteRequests' =
                  IF next = "delete_indications"
                  THEN deleteRequests \cup
                       {[target |-> "procedure_indications", key |-> ToString(proc.id)]}
                  ELSE deleteRequests
    /\ UNCHANGED <<diagnosticCenter, wizardVars, subs, pregnant_women, consent, checkVars,
                   doctorVars, authVars, auth_users, diagnostic_centers, registration,
                   loginVars, dashboard>>

(***************************************************************************)
(* SpecRows: a center registers, a patient is created by the wizard and    *)
(* edited in the modal; every request succeeds or fails.                   *)
(***************************************************************************)
RowInputs ==
    [performingDoctorId |-> {"d1"},
     referringDoctorId |-> {"r1"},
     scanPerformed |-> {"scan1"},
     selectedIndications |-> {{1, 2}},
     hasAadharRegisteredMobile |-> {"true"},
     consentMobile |-> {Good10},
     consentOtp |-> {FixedOtp}]

\* The registration forms of SpecRows: the center fields valid, with and
\* without doctors.
RowRegistrations ==
    {f \in RegistrationInputs :
        f.name = <<"A">> /\ f.performingDoctors # <<BlankPerformingDoctor>>}

NextRows ==
    \/ Continue("s1")
    \/ EditStep("s1", RowInputs)
    \/ GateStep("s1")
    \/ SubmitClick("s1")
    \/ StoreStep
    \/ Register_handleSendOtp({<<"7">> \o Rep("0", 9)})
    \/ Register_handleVerifyOtp({FixedOtp})
    \/ Register_handleSubmit(RowRegistrations)
    \/ RegisterResolves
    \/ PatientDetails_openEdit
    \/ EditPatientModal_handleSendConsentOtp
    \/ EditPatientModal_handleVerifyConsentOtp
    \/ EditPatientModal_handleSubmit
    \/ EditResolves

SpecRows == Init /\ [][NextRows]_vars

(***************************************************************************)
(* SpecChildren: the number of children alive is edited and children are   *)
(* added and removed in any order, then the wizard is submitted.           *)
(***************************************************************************)
ChildrenInputs ==
    [numberOfChildrenAlive |-> {<<0>>, <<1>>, <<2>>},
     performingDoctorId |-> {"d1"},
     referringDoctorId |-> {"r1"},
     hasAadharRegisteredMobile |-> {"true"},
     consentMobile |-> {Good10},
     consentOtp |-> {FixedOtp}]

NextChildren ==
    \/ Continue("s1")
    \/ EditStep("s1", ChildrenInputs)
    \/ ChildStep("s1")
    \/ GateStep("s1")
    \/ SubmitClick("s1")
    \/ StoreStep

SpecChildren == Init /\ [][NextChildren]_vars

(***************************************************************************)
(* Login (pages/Login.tsx) and SpecLogin: phone numbers and codes are      *)
(* entered, handleVerifyOtp is invoked up to MaxLogins times, each sign-in *)
(* and lookup succeeds or fails, and the header logs out.                  *)
(***************************************************************************)
OnLoginPage == loginPage.location = "/"

\* onChange={(e) => setPhoneNumber(e.target.value)}
Login_setPhoneNumber(v) ==
    /\ OnLoginPage
    /\ ~loginPage.showOtp
    /\ loginPage.phoneNumber # v
    /\ loginPage' = [loginPage EXCEPT !.phoneNumber = v]
    /\ UNCHANGED <<diagnosticCenter, wizardVars, subs, storeVars, checkVars, doctorVars,
                   authVars, rowVars, logins, editModal, dashboard>>

\* The phone form is submitted (its input is required): setShowOtp(true)
Login_handleSendOtp ==
    /\ OnLoginPage
    /\ ~loginPage.showOtp
    /\ Len(loginPage.phoneNumber) > 0
    /\ loginPage' = [loginPage EXCEPT !.showOtp = TRUE]
    /\ UNCHANGED <<diagnosticCenter, wizardVars, subs, storeVars, checkVars, doctorVars,
                   authVars, rowVars, logins, editModal, dashboard>>

\* onChange={(e) => setOtp(e.target.value)}
Login_setOtp(v) ==
    /\ OnLoginPage
    /\ loginPage.showOtp
    /\ loginPage.otp # v
    /\ loginPage' = [loginPage EXCEPT !.otp = v]
    /\ UNCHANGED <<diagnosticCenter, wizardVars, subs, storeVars, checkVars, doctorVars,
                   authVars, rowVars, logins, editModal, dashboard>>

\* Changed check: any code of six characters is taken.
LoginOtpAcceptedAnySix(otp) == Len(otp) = 6

\* otp !== '123456'
LoginOtpAccepted(otp) == otp = FixedOtp

\* The code form is submitted (its input is required): handleVerifyOtp up
\* to its first await.
Login_handleVerifyOtp ==
    /\ OnLoginPage
    /\ loginPage.showOtp
    /\ Len(loginPage.otp) > 0
    /\ Len(logins) < MaxLogins
    /\ IF LoginOtpAccepted(loginPage.otp)
       THEN /\ loginPage' = [loginPage EXCEPT !.error = ""]
            /\ logins' = Append(logins,
                 [phoneNumber |-> loginPage.phoneNumber, otp |-> loginPage.otp,
                  pc |-> "signIn", calls |-> <<"signIn">>, succeeded |-> <<>>,
                  loginCalled |-> FALSE, navigated |-> FALSE, outcome |-> "running"])
       ELSE /\ loginPage' = [loginPage EXCEPT !.error = "Invalid OTP"]
            /\ logins' = Append(logins,
                 [phoneNumber |-> loginPage.phoneNumber, otp |-> loginPage.otp,
                  pc |-> "done", calls |-> <<>>, succeeded |-> <<>>,
                  loginCalled |-> FALSE, navigated |-> FALSE, outcome |-> "invalid"])
    /\ UNCHANGED <<diagnosticCenter, wizardVars, subs, storeVars, checkVars, doctorVars,
                   authVars, rowVars, editModal, dashboard>>

\* The rows .eq('phone_number', phoneNumber) selects.
CentersWithPhone(phone) == {c \in diagnostic_centers : c.phone_number = phone}

\* The answers a call of handleVerifyOtp can get: the password sign-in
\* succeeds only for the phone number of a registered center, single()
\* yields a row only when exactly one matches, and any call can fail.
LoginCallResults(call, phone) ==
    IF Cardinality(CentersWithPhone(phone)) = 1 THEN {"ok", "error"} ELSE {"error"}

\* The call the invocation logins[i] waits for resolves.
LoginResolves(i) ==
    /\ i \in 1..Len(logins)
    /\ logins[i].pc \in {"signIn", "lookup"}
    /\ \E result \in LoginCallResults(logins[i].pc, logins[i].phoneNumber) :
         LET a == logins[i]
             ok == result = "ok"
             center == CHOOSE c \in CentersWithPhone(a.phoneNumber) : TRUE
             success == ok /\ a.pc = "lookup"
         IN  /\ logins' =
                  [logins EXCEPT ![i] =
                     [a EXCEPT
                        !.succeeded = IF ok THEN Append(@, a.pc) ELSE @,
                        !.pc = IF ok /\ a.pc = "signIn" THEN "lookup" ELSE "done",
                        !.calls = IF ok /\ a.pc = "signIn" THEN Append(@, "lookup") ELSE @,
                        !.loginCalled = success,
                        !.navigated = success,
                        !.outcome = IF success THEN "loggedIn"
                                    ELSE IF ok THEN "running" ELSE "failed"]]
             /\ auth' = IF success THEN AfterLogin(auth, <<center.id>>) ELSE auth
             /\ authOps' = IF success
                           THEN Append(authOps, [op |-> "login", center |-> <<center.id>>])
                           ELSE authOps
             /\ loginPage' =
                  IF success THEN [loginPage EXCEPT !.location = "/dashboard"]
                  ELSE IF ~ok /\ OnLoginPage
                       THEN [loginPage EXCEPT !.error = "Failed to login"]
                       ELSE loginPage
    /\ UNCHANGED <<diagnosticCenter, wizardVars, subs, storeVars, checkVars, doctorVars,
                   rowVars, editModal, dashboard>>

\* The header of the dashboard: logout(); navigate('/'), which shows a
\* fresh Login.
Login_afterLogout ==
    /\ loginPage.location = "/dashboard"
    /\ auth' = AfterLogout(auth)
    /\ authOps' = Append(authOps, [op |-> "handleLogout", center |-> <<>>])
    /\ loginPage' = LoginPageOpened
    /\ UNCHANGED <<diagnosticCenter, wizardVars, subs, storeVars, checkVars, doctorVars,
                   rowVars, logins, editModal, dashboard>>

\* The browser goes back from the dashboard to "/": a fresh Login is shown
\* and the AuthProvider keeps its state.
Login_browserBack ==
    /\ loginPage.location = "/dashboard"
    /\ loginPage' = LoginPageOpened
    /\ UNCHANGED <<diagnosticCenter, wizardVars, subs, storeVars, checkVars, doctorVars,
                   authVars, rowVars, logins, editModal, dashboard>>

LoginPhones == {<<"9">> \o Rep("0", 9), <<"8">> \o Rep("0", 9), <<"1">> \o Rep("0", 9)}

LoginOtps == {FixedOtp, Rep("0", 6), <<"1", "2", "3", "4", "5">>}

NextLogin ==
    \/ \E v \in LoginPhones : Login_setPhoneNumber(v)
    \/ Login_handleSendOtp
    \/ \E v \in LoginOtps : Login_setOtp(v)
    \/ Login_handleVerifyOtp
    \/ \E i \in 1..MaxLogins : LoginResolves(i)
    \/ Login_afterLogout
    \/ Login_browserBack

SpecLogin == Init /\ [][NextLogin]_vars

(***************************************************************************)
(* Dashboard: patient list, search by name, pagination                     *)
(***************************************************************************)
PatientsPerPage == 10

Asha == <<"A", "s", "h", "a">>

Bina == <<"B", "i", "n", "a">>

\* n patients named Asha followed by m named Bina
PatientList(n, m) == [k \in 1..(n + m) |-> [name |-> IF k <= n THEN Asha ELSE Bina]]

\* The lists the fetch returns: empty, less than a page, exactly one page,
\* three pages.
DashboardLists ==
    {PatientList(0, 0), PatientList(3, 0), PatientList(10, 0), PatientList(12, 9)}

\* The search terms typed.
SearchTerms == {<<>>, <<"A">>, <<"a", "s">>, <<"b", "i">>, <<"z">>}

\* String.prototype.toLowerCase on the letters used
LowerChar(c) ==
    CASE c = "A" -> "a"
      [] c = "B" -> "b"
      [] OTHER -> c

toLowerCase(s) == [k \in 1..Len(s) |-> LowerChar(s[k])]

\* String.prototype.includes
includes(s, sub) ==
    \E k \in 0..(Len(s) - Len(sub)) : SubSeq(s, k + 1, k + Len(sub)) = sub

\* patients.filter(patient => patient.name.toLowerCase().includes(searchTerm.toLowerCase()))
filteredPatients(d) ==
    SelectSeq(d.patients,
              LAMBDA patient : includes(toLowerCase(patient.name), toLowerCase(d.searchTerm)))

\* Math.ceil(n / d) for n >= 0, d > 0
Ceil(n, d) == (n + d - 1) \div d

\* Math.ceil(filteredPatients.length / patientsPerPage)
totalPages(d) == Ceil(Len(filteredPatients(d)), PatientsPerPage)

\* filteredPatients.slice(indexOfFirstPatient, indexOfLastPatient)
currentPatients(d) ==
    LET indexOfLastPatient == d.currentPage * PatientsPerPage
        indexOfFirstPatient == indexOfLastPatient - PatientsPerPage
        rows == filteredPatients(d)
        from == IF indexOfFirstPatient < 0 THEN 0 ELSE indexOfFirstPatient
        to == IF indexOfLastPatient > Len(rows) THEN Len(rows) ELSE indexOfLastPatient
    IN  IF to <= from THEN <<>> ELSE SubSeq(rows, from + 1, to)

DashboardUnchanged ==
    UNCHANGED <<diagnosticCenter, wizardVars, subs, storeVars, checkVars, doctorVars,
                authVars, rowVars, loginVars, editModal>>

\* One of the two fetchPatients calls of the mount effect resolves: with a
\* list (setPatients) or an error (logged); finally setLoading(false).
Dashboard_fetchResolves ==
    /\ dashboard.pending > 0
    /\ \E ok \in BOOLEAN, list \in DashboardLists :
         dashboard' = [dashboard EXCEPT
                         !.patients = IF ok THEN list ELSE @,
                         !.loading = FALSE,
                         !.pending = @ - 1]
    /\ DashboardUnchanged

\* onChange={(e) => setSearchTerm(e.target.value)}
Dashboard_setSearchTerm(v) ==
    /\ dashboard.searchTerm # v
    /\ dashboard' = [dashboard EXCEPT !.searchTerm = v]
    /\ DashboardUnchanged

\* Previous: disabled={currentPage === 1},
\* onClick={() => setCurrentPage(prev => Math.max(prev - 1, 1))}
Dashboard_previous ==
    /\ dashboard.currentPage # 1
    /\ dashboard' = [dashboard EXCEPT
                       !.currentPage = IF @ - 1 > 1 THEN @ - 1 ELSE 1]
    /\ DashboardUnchanged

\* Next: disabled={currentPage === totalPages},
\* onClick={() => setCurrentPage(prev => Math.min(prev + 1, totalPages))}
Dashboard_next ==
    /\ dashboard.currentPage # totalPages(dashboard)
    /\ dashboard' = [dashboard EXCEPT
                       !.currentPage = IF @ + 1 < totalPages(dashboard)
                                       THEN @ + 1 ELSE totalPages(dashboard)]
    /\ DashboardUnchanged

NextDashboard ==
    \/ Dashboard_fetchResolves
    \/ \E v \in SearchTerms : Dashboard_setSearchTerm(v)
    \/ Dashboard_previous
    \/ Dashboard_next

SpecDashboard == Init /\ [][NextDashboard]_vars

(***************************************************************************)
(* SpecRegister: a center registers: phone number, code, the form with and *)
(* without valid center and doctor entries; every request succeeds or      *)
(* fails.                                                                  *)
(***************************************************************************)
NextRegister ==
    \/ Register_handleSendOtp(RegisterPhones)
    \/ Register_handleVerifyOtp(RegisterOtps)
    \/ Register_handleSubmit(RegistrationInputs)
    \/ RegisterResolves

SpecRegister == Init /\ [][NextRegister]_vars

(***************************************************************************)
(* SpecEdit: the edit modal is opened for a patient the wizard registered, *)
(* its consent gate is worked with right and wrong codes, and it is saved  *)
(* up to MaxEdits times; every statement succeeds or is rejected.          *)
(***************************************************************************)
\* The onSubmit invocation that registered the patient: insert after
\* insert succeeded.
RegisteredSub ==
    [NewSub("s1", SubmitData([DefaultValues EXCEPT
                                 !.aadharNumber = Aadhar1,
                                 !.numberOfChildrenAlive = <<1>>,
                                 !.performingDoctorId = "d1",
                                 !.referringDoctorId = "r1",
                                 !.selectedIndications = {1, 2},
                                 !.hasAadharRegisteredMobile = "true",
                                 !.consentMobile = Good10]))
       EXCEPT !.patientId = 1, !.pregnancyId = 2, !.procedureId = 3]

\* The store after RegisteredSub: the rows onSubmit wrote, no child.
StoreWithPatient ==
    /\ pregnant_women = PatientRows(RegisteredSub, 1)
    /\ pregnancy_details = PregnancyRows(RegisteredSub, 2)
    /\ children = {}
    /\ procedures = ProcedureRows(RegisteredSub, 3)
    /\ procedure_indications = IndicationRows(RegisteredSub, 4)
    /\ consent = ConsentRows(RegisteredSub, 6)
    /\ nextId = 7

InitEdit == InitSessions(TwoCenters) /\ StoreWithPatient /\ IdleExcept({})

NextEdit ==
    \/ PatientDetails_openEdit
    \/ EditPatientModal_close
    \/ EditPatientModal_handleSendConsentOtp
    \/ \E v \in {FixedOtp, WrongOtp} : EditPatientModal_typeOtp(v)
    \/ EditPatientModal_handleVerifyConsentOtp
    \/ EditPatientModal_handleSubmit
    \/ EditResolves

SpecEdit == InitEdit /\ [][NextEdit]_vars

(***************************************************************************)
(* SpecPhone: the mobile-number validators applied to strings of 9 to 11   *)
(* characters, digits and others.                                          *)
(***************************************************************************)
PhoneInputs ==
    {<<>>} \cup
    {<<f>> \o Rep(m, n) \o tail :
        f \in {"0", "5", "6", "9", "a"}, m \in {"0", "9", "x"},
        n \in {7, 8, 9}, tail \in {<<>>, <<"1">>, <<" ">>, <<"1", "2">>}}

InitPhone ==
    /\ InitWizard(TwoCenters)
    /\ IdleExcept({"phone"})
    /\ \E v \in PhoneInputs :
          phoneCheck = [value |-> v, pending |-> TRUE, result |-> "", register |-> FALSE]

\* validatePhoneNumber(value) is called in AddPatient and in Register.
ApplyValidatePhone ==
    /\ phoneCheck.pending
    /\ phoneCheck' = [phoneCheck EXCEPT
                        !.pending = FALSE,
                        !.result = validatePhoneNumber(phoneCheck.value),
                        !.register = Register_validatePhoneNumber(phoneCheck.value)]
    /\ UNCHANGED <<diagnosticCenter, wizardVars, subs, storeVars, lmpCheck, csvExport,
                   doctorVars, authVars, rowVars, pageVars>>

NextPhone == ApplyValidatePhone

SpecPhone == InitPhone /\ [][NextPhone]_vars

(***************************************************************************)
(* SpecLmp: validateLMP applied, on several days and at both times of day, *)
(* to the days around today and around nine months before it.              *)
(***************************************************************************)
LmpDays == {[y |-> 2025, m |-> 5, d |-> 31], [y |-> 2025, m |-> 11, d |-> 30],
            [y |-> 2025, m |-> 11, d |-> 15], [y |-> 2024, m |-> 11, d |-> 30],
            [y |-> 2025, m |-> 3, d |-> 31], [y |-> 2025, m |-> 1, d |-> 15],
            [y |-> 2025, m |-> 12, d |-> 31], [y |-> 2025, m |-> 7, d |-> 1]}

LmpClocks == {[y |-> t.y, m |-> t.m, d |-> t.d, late |-> l] : t \in LmpDays, l \in BOOLEAN}

\* All days of the month mm of year yy.
DaysOf(yy, mm) == {[y |-> yy, m |-> mm, d |-> dd] : dd \in 1..DaysInMonth(yy, mm)}

\* The days of the month of today, of the month after it, of the month nine
\* months back and of the month after that one.
LmpInputs(today) ==
    LET idx == (today.m - 1) - LmpMonthsBack
        by  == IF idx < 0 THEN today.y - 1 ELSE today.y
        bm  == (IF idx < 0 THEN idx + 12 ELSE idx) + 1
        After(yy, mm) == IF mm = 12 THEN DaysOf(yy + 1, 1) ELSE DaysOf(yy, mm + 1)
    IN  DaysOf(today.y, today.m) \cup After(today.y, today.m)
          \cup DaysOf(by, bm) \cup After(by, bm)

InitLmp ==
    /\ InitWizard(TwoCenters)
    /\ IdleExcept({"lmp"})
    /\ \E t \in LmpClocks : \E v \in LmpInputs(t) :
          lmpCheck = [value |-> <<v>>, today |-> t, pending |-> TRUE, result |-> ""]

\* validateLMP(value) is called while the clock shows lmpCheck.today.
ApplyValidateLMP ==
    /\ lmpCheck.pending
    /\ lmpCheck' = [lmpCheck EXCEPT
                      !.pending = FALSE,
                      !.result = validateLMP(lmpCheck.value, lmpCheck.today)]
    /\ UNCHANGED <<diagnosticCenter, wizardVars, subs, storeVars, phoneCheck, csvExport,
                   doctorVars, authVars, rowVars, pageVars>>

NextLmp == ApplyValidateLMP

SpecLmp == InitLmp /\ [][NextLmp]_vars

(***************************************************************************)
(* SpecExport: Dashboard.exportToCSV over up to MaxPatients patients of    *)
(* the center, created in the current month or before it, with and         *)
(* without a last menstrual period.                                        *)
(***************************************************************************)
EddDays == 280

\* The first day of the month after the month of d.
NextMonthStart(d) ==
    IF d.m < 12 THEN [y |-> d.y, m |-> d.m + 1, d |-> 1]
    ELSE [y |-> d.y + 1, m |-> 1, d |-> 1]

RECURSIVE AddDays(_, _)
\* new Date(new Date(lmp).getTime() + n * 24 * 60 * 60 * 1000), month by month
AddDays(d, n) ==
    LET left == DaysInMonth(d.y, d.m) - d.d
    IN  IF n <= left THEN [y |-> d.y, m |-> d.m, d |-> d.d + n]
        ELSE AddDays(NextMonthStart(d), n - left - 1)

\* .gte('created_at', firstDayOfMonth).lte('created_at', now)
CreatedThisMonth(p, now) ==
    /\ ~DateLess(p.created_at, [y |-> now.y, m |-> now.m, d |-> 1])
    /\ ~DateLess(now, p.created_at)

\* The object exportToCSV builds for the index-th patient of monthlyData.
CsvRow(patient, index) ==
    LET lmp == patient.last_menstrual_period
    IN  [sno |-> index, name |-> patient.name, lmp |-> lmp,
         edd |-> IF Len(lmp) > 0 THEN <<AddDays(lmp[1], EddDays)>> ELSE <<>>]

\* Object.keys(csvData[0]) throws for an empty csvData; the catch block
\* logs the error and no file is offered.
CsvFile(monthlyData) ==
    IF Len(monthlyData) = 0 THEN NoFile
    ELSE [produced |-> TRUE, header |-> TRUE,
          rows |-> [k \in 1..Len(monthlyData) |-> CsvRow(monthlyData[k], k)]]

ExportNow == [y |-> 2025, m |-> 5, d |-> 20]

ExportPatients ==
    {[name |-> n, created_at |-> c, last_menstrual_period |-> l] :
        n \in {"A"},
        c \in {[y |-> 2025, m |-> 5, d |-> 1], [y |-> 2025, m |-> 5, d |-> 20],
               [y |-> 2025, m |-> 4, d |-> 30]},
        l \in {<<>>, <<[y |-> 2025, m |-> 1, d |-> 31]>>, <<[y |-> 2024, m |-> 12, d |-> 1]>>}}

RECURSIVE SeqsUpTo(_, _)
\* The sequences of at most n elements of S.
SeqsUpTo(S, n) ==
    IF n = 0 THEN {<<>>}
    ELSE LET shorter == SeqsUpTo(S, n - 1)
         IN  shorter \cup {Append(q, x) : q \in shorter, x \in S}

InitExport ==
    /\ InitWizard(TwoCenters)
    /\ IdleExcept({"csv"})
    /\ \E ps \in SeqsUpTo(ExportPatients, MaxPatients) :
          csvExport = [patients |-> ps, now |-> ExportNow, pending |-> TRUE, file |-> NoFile]

exportToCSV ==
    /\ csvExport.pending
    /\ LET InMonth(p) == CreatedThisMonth(p, csvExport.now)
           monthlyData == SelectSeq(csvExport.patients, InMonth)
       IN  csvExport' = [csvExport EXCEPT !.pending = FALSE, !.file = CsvFile(monthlyData)]
    /\ UNCHANGED <<diagnosticCenter, wizardVars, subs, storeVars, phoneCheck, lmpCheck,
                   doctorVars, authVars, rowVars, pageVars>>

NextExport == exportToCSV

SpecExport == InitExport /\ [][NextExport]_vars

(***************************************************************************)
(* Properties                                                              *)
(***************************************************************************)
SubIndex == 1..Len(subs)

Last(seq) == seq[Len(seq)]

AllTablesEmpty ==
    /\ pregnant_women = {} /\ pregnancy_details = {} /\ children = {}
    /\ procedures = {} /\ procedure_indications = {} /\ consent = {}

ConsentGuardMessage == "Please verify consent OTP before proceeding"

\* C1: while consentVerified is false the Submit control is disabled and no
\* onSubmit invocation of that wizard has issued an insert; an onSubmit call
\* made in that state leaves only the consentOtp field error behind and the
\* store untouched.
C1_NoInsertWhileUnverified ==
    \A s \in Sessions :
        ~consentVerified[s] =>
            /\ ~SubmitButtonEnabled(s)
            /\ \A i \in SubIndex : subs[i].s # s
            /\ (s = "s1" => AllTablesEmpty /\ nextId = 1)

\* An onSubmit call was made while consentVerified was false.
C1_Witness ==
    /\ ~consentVerified["s1"]
    /\ errors["s1"].consentOtp = ConsentGuardMessage
    /\ subs = <<>>

\* C2: consentVerified becomes true only in handleVerifyConsentOtp with the
\* entered code equal to the fixed value; with any other code the handler
\* sets the 'Invalid OTP' error on consentOtp and the gate stays at OtpShown.
C2_VerifiedOnlyByFixedOtp ==
    [][\A s \in Sessions :
         /\ (consentVerified'[s] /\ ~consentVerified[s]) =>
               /\ handleVerifyConsentOtp(s)
               /\ showConsentOtp[s]
               /\ form[s].consentOtp = <<"1", "2", "3", "4", "5", "6">>
         /\ (handleVerifyConsentOtp(s)
               /\ form[s].consentOtp # <<"1", "2", "3", "4", "5", "6">>) =>
               /\ errors'[s].consentOtp = "Invalid OTP"
               /\ showConsentOtp'[s]
               /\ ~consentVerified'[s]]_vars

\* A wrong code was rejected and the right one accepted afterwards.
C2_Witness ==
    /\ consentVerified["s1"]
    /\ errors["s1"].consentOtp = "Invalid OTP"

\* The order of the inserts as the claims state it.
ClaimedOrder == <<"pregnant_women", "pregnancy_details", "children", "procedures",
                  "procedure_indications", "consent">>

\* The inserts an invocation with the data `data` is to issue: a batch with
\* no element is left out.
ExpectedInserts(data) ==
    LET Issued(tbl) ==
            /\ tbl = "children" => Len(data.children) > 0
            /\ tbl = "procedure_indications" => data.selectedIndications # {}
    IN  SelectSeq(ClaimedOrder, Issued)

IsPrefix(a, b) == Len(a) <= Len(b) /\ \A k \in 1..Len(a) : a[k] = b[k]

\* The rows of the table `tbl` named `name` that the invocation sub created.
CreatedIn(tbl, name, sub) == {r \in tbl : <<name, r.id>> \in sub.created}

\* C3: the inserts of one onSubmit invocation are issued in the order
\* patient, pregnancy detail, children batch, procedure, indications batch,
\* consent, each only after the one before it succeeded, an empty batch
\* left out, and each row carries the id its parent insert returned.
C3_InsertOrder ==
    \A i \in SubIndex :
        LET sub == subs[i]
            pat == CreatedIn(pregnant_women, "pregnant_women", sub)
            prg == CreatedIn(pregnancy_details, "pregnancy_details", sub)
            prc == CreatedIn(procedures, "procedures", sub)
        IN  /\ IsPrefix(sub.issued, ExpectedInserts(sub.data))
            /\ \A k \in 1..(Len(sub.issued) - 1) :
                   \E c \in sub.created : c[1] = sub.issued[k]
            /\ \A r \in prg : \E q \in pat : r.pregnant_woman_id = q.id
            /\ \A r \in CreatedIn(children, "children", sub) :
                   \E q \in prg : r.pregnancy_details_id = q.id
            /\ \A r \in prc : \E q \in pat : r.pregnant_woman_id = q.id
            /\ \A r \in CreatedIn(procedure_indications, "procedure_indications", sub) :
                   \E q \in prc : r.procedure_id = q.id
            /\ \A r \in CreatedIn(consent, "consent", sub) :
                   \E q \in pat : r.pregnant_woman_id = q.id

\* An invocation with children and indications ran through all six inserts.
C3_Witness ==
    \E i \in SubIndex :
        /\ subs[i].navigated
        /\ subs[i].issued = ClaimedOrder
        /\ Cardinality(CreatedIn(children, "children", subs[i])) = MaxChildren
        /\ CreatedIn(procedure_indications, "procedure_indications", subs[i]) # {}

\* C4: after the first rejected insert of an invocation no further statement
\* is issued by it, no insert is issued twice, and the wizard navigates to
\* /dashboard only when every insert succeeded.
C4_AbortOnFirstRejection ==
    \A i \in SubIndex :
        LET sub == subs[i]
        IN  /\ Len(sub.rejected) <= 1
            /\ sub.rejected # <<>> =>
                  /\ sub.pc = "done"
                  /\ Last(sub.issued) = sub.rejected[1]
                  /\ ~sub.navigated
            /\ \A k, l \in 1..Len(sub.issued) : sub.issued[k] = sub.issued[l] => k = l
            /\ sub.navigated =>
                  /\ sub.rejected = <<>>
                  /\ \A k \in 1..Len(ExpectedInserts(sub.data)) :
                        \E c \in sub.created : c[1] = ExpectedInserts(sub.data)[k]
            /\ \A n \in {"pregnant_women", "pregnancy_details", "children", "procedures",
                         "procedure_indications", "consent"} :
                  \A c \in sub.created :
                      c[1] = n => n \in {sub.issued[k] : k \in 1..Len(sub.issued)}

\* An insert in the middle of the sequence was rejected.
C4_Witness ==
    \E i \in SubIndex :
        /\ subs[i].rejected = <<"procedures">>
        /\ subs[i].outcome = "failed"
        /\ location[subs[i].s] = "/add-patient"

\* C5: every row an invocation created is still in its table after a later
\* insert of the invocation was rejected.
C5_PartialWritesPersist ==
    \A i \in SubIndex :
        LET sub == subs[i]
            Table(n) == CASE n = "pregnant_women" -> pregnant_women
                          [] n = "pregnancy_details" -> pregnancy_details
                          [] n = "children" -> children
                          [] n = "procedures" -> procedures
                          [] n = "procedure_indications" -> procedure_indications
                          [] n = "consent" -> consent
        IN  \A c \in sub.created : \E r \in Table(c[1]) : r.id = c[2]

\* The patient insert succeeded and the pregnancy-detail insert was rejected.
C5_Witness ==
    \E i \in SubIndex :
        /\ subs[i].rejected = <<"pregnancy_details">>
        /\ subs[i].patientId # 0
        /\ \E r \in pregnant_women : r.id = subs[i].patientId

\* The step on which the field f is rendered.
StepOfField(f) ==
    CHOOSE k \in 1..LastStep :
        f \in (CASE k = 1 -> Step1Fields [] k = 2 -> Step2Fields
                 [] k = 3 -> Step3Fields [] k = 4 -> Step4Fields)

AadharConflictMessage == "This Aadhar number is already registered in the system"

\* C6: when the patient insert is rejected for the uniqueness of the Aadhar
\* number, onSubmit sets the current step to the step that shows the Aadhar
\* field, sets the inline message, raises no toast and issues no further
\* insert.
C6_ConflictReturnsToAadharStep ==
    [][\A i \in SubIndex :
         (subs[i].outcome # "conflict" /\ subs'[i].outcome = "conflict") =>
             /\ step'[subs[i].s] = StepOfField("aadharNumber")
             /\ aadharError'[subs[i].s] = AadharConflictMessage
             /\ ~subs'[i].toasted
             /\ subs'[i].issued = subs[i].issued
             /\ subs'[i].pc = "done"]_vars

\* The parts of C6 the code does: inline message, no toast, no further insert.
C6_ConflictHandled ==
    \E i \in SubIndex :
        /\ subs[i].outcome = "conflict"
        /\ aadharError[subs[i].s] = AadharConflictMessage
        /\ ~subs[i].toasted
        /\ subs[i].issued = <<"pregnant_women">>

\* C7: once the Aadhar field is validated on change, a 12-digit value that
\* some row of the patient table carries gets the rejection message,
\* whichever center owns the row, and a value that is not 12 digits gets the
\* format message.
C7_RegisteredAadharRejected ==
    [][\A s \in Sessions :
         LET v == form'[s].aadharNumber
         IN  (OnWizard(s) /\ isSubmitted[s] /\ v # form[s].aadharNumber) =>
                 /\ (AadharRegexTest(v) /\ \E r \in pregnant_women : r.aadhar_number = v)
                       => errors'[s].aadharNumber = "This Aadhar number is already registered"
                 /\ (v # <<>> /\ Len(v) # AadharLength)
                       => /\ errors'[s].aadharNumber = "Please enter a valid 12-digit Aadhar number"
                          /\ ~AadharQueries(v)]_vars

\* C8: of two wizards that submit the same Aadhar number at most one patient
\* row ever exists; the other invocation is rejected by the unique
\* constraint, its wizard shows the error, and it creates no row.
C8_OneRowPerAadhar ==
    /\ \A r, q \in pregnant_women : r.aadhar_number = q.aadhar_number => r = q
    /\ \A i \in SubIndex :
         subs[i].outcome = "conflict" =>
             /\ subs[i].created = {}
             /\ subs[i].issued = <<"pregnant_women">>
             /\ ~subs[i].navigated
             /\ (OnWizard(subs[i].s) /\ ~\E j \in SubIndex : j > i /\ subs[j].s = subs[i].s)
                  => aadharError[subs[i].s] = AadharConflictMessage

\* Both wizards submitted the same number while neither row existed; one
\* insert created the row and the other was rejected.
C8_Witness ==
    \E i, j \in SubIndex :
        /\ subs[i].s = "s1" /\ subs[j].s = "s2"
        /\ subs[i].data.aadharNumber = subs[j].data.aadharNumber
        /\ AadharRegexTest(subs[i].data.aadharNumber)
        /\ \E c \in subs[i].created : c[1] = "pregnant_women"
        /\ subs[j].outcome = "conflict"
        /\ aadharError["s2"] = AadharConflictMessage
        /\ Cardinality(pregnant_women) = 1

\* The fields of a step that carry a validation rule.
RequiredFields(k) ==
    RuleFields \cap (CASE k = 1 -> Step1Fields [] k = 2 -> Step2Fields
                       [] k = 3 -> Step3Fields [] k = 4 -> Step4Fields)

\* C9: Continue is enabled on a step only when every required field of that
\* step is present and passes its validator.
C9_ContinueOnlyWhenStepValid ==
    \A s \in Sessions :
        (OnWizard(s) /\ step[s] < LastStep /\ canProceedToNextStep(s)) =>
            \A f \in RequiredFields(step[s]) : FieldError(f, form[s], {}) = ""

\* C10: Previous is enabled on every step after the first whatever the
\* fields and errors are; it sets the step to the one before and leaves the
\* form values and the consent gate as they are; a sidebar click never
\* raises the step.
C10_PreviousAlwaysAllowed ==
    /\ [](\A s \in Sessions : (OnWizard(s) /\ step[s] > 1) => ENABLED Previous(s))
    /\ [][\A s \in Sessions :
            /\ Previous(s) =>
                  /\ step'[s] = step[s] - 1
                  /\ form'[s] = form[s]
                  /\ showConsentOtp'[s] = showConsentOtp[s]
                  /\ consentVerified'[s] = consentVerified[s]
            /\ \A k \in 1..LastStep :
                  SidebarClick(s, k) =>
                      /\ step'[s] <= step[s]
                      /\ step'[s] # step[s] => step'[s] = k
                      /\ form'[s] = form[s]
                      /\ consentVerified'[s] = consentVerified[s]]_vars

\* The wizard went back from the last step after its consent was verified,
\* with field errors on record.
C10_Witness ==
    /\ step["s1"] = 1
    /\ consentVerified["s1"]
    /\ isSubmitted["s1"]
    /\ errors["s1"] # NoErrors

\* C11: handleSendConsentOtp shows the OTP section only when consentMobile
\* passes the mobile-number validator; for a value that fails it the gate
\* stays Unsent and an error is set on consentMobile.
C11_SendRequiresValidMobile ==
    [][\A s \in Sessions :
         (handleSendConsentOtp(s) /\ ~PhoneRegexTest(form[s].consentMobile)) =>
             /\ ~showConsentOtp'[s]
             /\ errors'[s].consentMobile # ""]_vars

\* The OTP section is shown for a mobile number the validator rejects.
C11_ShownForRejectedMobile ==
    /\ showConsentOtp["s1"]
    /\ validatePhoneNumber(form["s1"].consentMobile) # JsTrue

\* The inserts the invocation sub has issued, as a set.
IssuedSet(sub) == {sub.issued[k] : k \in 1..Len(sub.issued)}

\* The invocation sub went past its indications step without a rejection there.
PastIndications(sub) == sub.procedureId # 0 /\ "consent" \in IssuedSet(sub)

C12_NoneSelected ==
    \E i \in SubIndex :
        /\ PastIndications(subs[i])
        /\ subs[i].data.selectedIndications = {}

\* A string of exactly 10 decimal digits whose first digit is 6, 7, 8 or 9.
TenDigitMobile(v) ==
    /\ Len(v) = 10
    /\ \A k \in 1..Len(v) : v[k] \in {"0", "1", "2", "3", "4", "5", "6", "7", "8", "9"}
    /\ v[1] \in {"6", "7", "8", "9"}

\* C13: validatePhoneNumber, in AddPatient and in Register, accepts a
\* string iff it is exactly 10 decimal digits with a first digit in 6..9;
\* in AddPatient acceptance is the value true and rejection the message.
C13_PhoneValidatorIff ==
    ~phoneCheck.pending /\ phoneCheck.result # "" =>
        /\ phoneCheck.result = "<true>" <=> TenDigitMobile(phoneCheck.value)
        /\ ~TenDigitMobile(phoneCheck.value) =>
               phoneCheck.result = "Please enter a valid 10-digit mobile number"
        /\ phoneCheck.register <=> TenDigitMobile(phoneCheck.value)

\* The validators were applied to a number they accept.
C13_Witness ==
    /\ ~phoneCheck.pending
    /\ TenDigitMobile(phoneCheck.value)
    /\ phoneCheck.result = "<true>"
    /\ phoneCheck.register

\* The validators were applied to eleven digits with a leading 9.
C13_RejectedLong ==
    /\ ~phoneCheck.pending
    /\ Len(phoneCheck.value) = 11
    /\ phoneCheck.value[1] = "9"
    /\ phoneCheck.result = "Please enter a valid 10-digit mobile number"

\* The last day of month m of year y.
LastDayOfMonth(y, m) ==
    IF m = 2 THEN (IF (y % 4 = 0 /\ y % 100 # 0) \/ y % 400 = 0 THEN 29 ELSE 28)
    ELSE IF m \in {4, 6, 9, 11} THEN 30 ELSE 31

\* The day n calendar months before t: the same day of the month, or the
\* last day of that month when it has fewer days.
CalendarMonthsBefore(t, n) ==
    LET idx == (t.y * 12 + (t.m - 1)) - n
        yy  == idx \div 12
        mm  == (idx % 12) + 1
        last == LastDayOfMonth(yy, mm)
    IN  [y |-> yy, m |-> mm, d |-> IF t.d <= last THEN t.d ELSE last]

Before(a, b) == <<a.y, a.m, a.d>> # <<b.y, b.m, b.d>> /\
    (a.y < b.y \/ (a.y = b.y /\ (a.m < b.m \/ (a.m = b.m /\ a.d < b.d))))

\* C14: validateLMP rejects a date iff it is after today or more than nine
\* calendar months before today, and returns true for every date from the
\* day nine months before today up to today, whatever the day of the month.
C14_LmpWindow ==
    (~lmpCheck.pending /\ lmpCheck.result # "") =>
        LET d == lmpCheck.value[1]
            t == lmpCheck.today
            outside == Before(t, d) \/ Before(d, CalendarMonthsBefore(t, 9))
        IN  /\ outside <=> lmpCheck.result # "<true>"
            /\ ~outside => lmpCheck.result = "<true>"

\* C14 with the clock left out: the same statement for the dates that are
\* neither today nor the day nine months before today.
C14_LmpWindowInside ==
    (~lmpCheck.pending /\ lmpCheck.result # "") =>
        LET d == lmpCheck.value[1]
            t == lmpCheck.today
            lo == CalendarMonthsBefore(t, 9)
            outside == Before(t, d) \/ Before(d, lo)
        IN  (Before(d, t) /\ <<d.y, d.m, d.d>> # <<lo.y, lo.m, lo.d>>) =>
                (outside <=> lmpCheck.result # "<true>")

RECURSIVE DaysBeforeMonth(_, _)
\* The number of days of year y that lie before its month m.
DaysBeforeMonth(y, m) ==
    IF m = 1 THEN 0 ELSE DaysBeforeMonth(y, m - 1) + LastDayOfMonth(y, m - 1)

RECURSIVE DaysBeforeYear(_)
\* The number of days from 1 January 2024 to 1 January of year y.
DaysBeforeYear(y) ==
    IF y <= 2024 THEN 0
    ELSE DaysBeforeYear(y - 1) + DaysBeforeMonth(y - 1, 12) + 31

DayNumber(d) == DaysBeforeYear(d.y) + DaysBeforeMonth(d.y, d.m) + d.d

\* The positions in the patient list of the patients created in the month of `now`.
InQueriedMonth(ps, now) ==
    {k \in 1..Len(ps) :
        /\ ps[k].created_at.y = now.y /\ ps[k].created_at.m = now.m
        /\ ps[k].created_at.d <= now.d}

\* C15: for every set of patients of the center, the empty set included,
\* exportToCSV produces a file with a header line and exactly one data line
\* per patient created within the queried month, whose EDD is LMP + 280
\* days when the patient has an LMP and empty otherwise.
C15_CsvOneRowPerPatient ==
    (~csvExport.pending /\ csvExport.now # Today) =>
        LET ps == csvExport.patients
            inMonth == InQueriedMonth(ps, csvExport.now)
            file == csvExport.file
        IN  /\ file.produced
            /\ file.header
            /\ Len(file.rows) = Cardinality(inMonth)
            /\ \A k \in 1..Len(file.rows) :
                  LET row == file.rows[k]
                  IN  /\ row.sno = k
                      /\ IF row.lmp = <<>> THEN row.edd = <<>>
                         ELSE /\ Len(row.edd) = 1
                              /\ DayNumber(row.edd[1]) = DayNumber(row.lmp[1]) + 280

\* C15 for exports with at least one patient in the queried month.
C15_CsvNonEmpty ==
    (~csvExport.pending /\ csvExport.now # Today
       /\ InQueriedMonth(csvExport.patients, csvExport.now) # {}) =>
        LET ps == csvExport.patients
            inMonth == InQueriedMonth(ps, csvExport.now)
            file == csvExport.file
        IN  /\ file.produced /\ file.header
            /\ Len(file.rows) = Cardinality(inMonth)
            /\ \A k \in 1..Len(file.rows) :
                  LET row == file.rows[k]
                  IN  IF row.lmp = <<>> THEN row.edd = <<>>
                      ELSE DayNumber(row.edd[1]) = DayNumber(row.lmp[1]) + 280

\* C16: every onSubmit invocation that proceeds past the consent check
\* carries a selected performing doctor, and every procedure row has it as
\* attending_doctor_id.
C16_SubmitHasPerformingDoctor ==
    /\ \A i \in SubIndex : subs[i].data.performingDoctorId # ""
    /\ \A r \in procedures : r.attending_doctor_id # ""

\* The half of C16 the store enforces: no procedure row without a doctor.
C16_RowsHavePerformingDoctor ==
    \A r \in procedures :
        /\ r.attending_doctor_id # ""
        /\ \E i \in SubIndex : r.attending_doctor_id = subs[i].data.performingDoctorId

\* C17: the referring doctor is optional; an invocation with a performing
\* doctor and no referring doctor that has reached its procedure insert can
\* have the procedure created.
C17_ReferringDoctorOptional ==
    \A i \in SubIndex :
        (subs[i].pc = "procedures"
           /\ subs[i].data.performingDoctorId # ""
           /\ subs[i].data.referringDoctorId = "") =>
            "ok" \in InsertResults(subs[i])

\* No procedure row is ever without a referring doctor.
C17_RowsHaveReferringDoctor ==
    \A r \in procedures : r.referring_doctor_id # ""

\* C20: no operation issues a delete against the store or the auth
\* provider; registration, patient creation and patient editing only insert
\* and update rows, so no table ever loses a row.
C20_RowsNeverShrink ==
    [][/\ deleteRequests' = deleteRequests
       /\ Cardinality(auth_users') >= Cardinality(auth_users)
       /\ Cardinality(diagnostic_centers') >= Cardinality(diagnostic_centers)
       /\ Cardinality(performing_doctors') >= Cardinality(performing_doctors)
       /\ Cardinality(referring_doctors') >= Cardinality(referring_doctors)
       /\ Cardinality(pregnant_women') >= Cardinality(pregnant_women)
       /\ Cardinality(pregnancy_details') >= Cardinality(pregnancy_details)
       /\ Cardinality(children') >= Cardinality(children)
       /\ Cardinality(procedures') >= Cardinality(procedures)
       /\ Cardinality(procedure_indications') >= Cardinality(procedure_indications)
       /\ Cardinality(consent') >= Cardinality(consent)]_vars

\* The part of C20 that holds: the tables other than procedure_indications
\* and the auth users never lose a row.
C20_OtherTablesNeverShrink ==
    [][/\ Cardinality(diagnostic_centers') >= Cardinality(diagnostic_centers)
       /\ Cardinality(performing_doctors') >= Cardinality(performing_doctors)
       /\ Cardinality(referring_doctors') >= Cardinality(referring_doctors)
       /\ Cardinality(pregnant_women') >= Cardinality(pregnant_women)
       /\ Cardinality(pregnancy_details') >= Cardinality(pregnancy_details)
       /\ Cardinality(children') >= Cardinality(children)
       /\ Cardinality(procedures') >= Cardinality(procedures)
       /\ Cardinality(consent') >= Cardinality(consent)]_vars

\* A saved edit leaves a procedure without any indication row although
\* indications were ticked: the delete went through and the insert failed.
C20_NoIndicationLost ==
    (edit.pc = "failed" /\ edit.form[1].procedure_indications # {}) =>
        \E r \in procedure_indications : r.procedure_id = ProcedureOf(edit.patientId).id

\* The invocation sub went past its children step without a rejection there.
PastChildren(sub) == sub.pregnancyId # 0 /\ "procedures" \in IssuedSet(sub)

\* C21: the children array changes only by appending one default child or
\* removing one element, with numberOfChildrenAlive unchanged; a change of
\* numberOfChildrenAlive leaves the array unchanged; an invocation stores
\* the count field in number_of_children_alive and, once past its children
\* step, has inserted exactly one child row per element of the array,
\* whatever the count says.
C21_CountAndChildrenIndependent ==
    /\ [][\A s \in Sessions :
            /\ form'[s].children # form[s].children =>
                 /\ form'[s].numberOfChildrenAlive = form[s].numberOfChildrenAlive
                 /\ \/ form'[s].children = Append(form[s].children, DefaultChild)
                    \/ \E k \in 1..Len(form[s].children) :
                         form'[s].children = RemoveAt(form[s].children, k)
            /\ form'[s].numberOfChildrenAlive # form[s].numberOfChildrenAlive =>
                 form'[s].children = form[s].children]_vars
    /\ [](\A i \in SubIndex :
            LET sub == subs[i]
                pregnancy == CreatedIn(pregnancy_details, "pregnancy_details", sub)
                rows == CreatedIn(children, "children", sub)
            IN  /\ \A r \in pregnancy :
                     r.number_of_children_alive = sub.data.numberOfChildrenAlive
                /\ PastChildren(sub) =>
                     /\ Cardinality(rows) = Len(sub.data.children)
                     /\ \A r \in rows : r.pregnancy_details_id = sub.pregnancyId
                /\ ~PastChildren(sub) => rows = {})

\* An invocation with count 0 and one child in the array stored the count 0
\* and inserted the child row.
C21_Witness ==
    \E i \in SubIndex :
        /\ PastChildren(subs[i])
        /\ subs[i].data.numberOfChildrenAlive = <<0>>
        /\ Len(subs[i].data.children) = 1
        /\ \E r \in pregnancy_details :
             r.id = subs[i].pregnancyId /\ r.number_of_children_alive = <<0>>
        /\ \E r \in children : r.pregnancy_details_id = subs[i].pregnancyId

\* The wizard shows count 2 with an empty children array.
C21_CountAboveLength ==
    /\ form["s1"].numberOfChildrenAlive = <<2>>
    /\ form["s1"].children = <<>>
    /\ step["s1"] = 2

\* The invocation logins[i] ends without success in this step.
LoginEndsInFailure(i) ==
    /\ i \in 1..Len(logins')
    /\ logins'[i].outcome \in {"invalid", "failed"}
    /\ (i > Len(logins) \/ logins[i].outcome = "running")

\* C22: an invocation of handleVerifyOtp called login only if its code was
\* the fixed value and its sign-in and its center lookup both succeeded,
\* and then navigated; an invocation with another code issued no backend
\* call; the session becomes authenticated only in the step in which an
\* invocation succeeds, with the center of the entered phone number; in
\* the step in which an invocation ends otherwise the session is left as
\* it was and the page error is set.
C22_LoginOnlyAfterOtpAndBackend ==
    /\ [](\A i \in 1..Len(logins) :
            LET a == logins[i]
            IN  /\ a.loginCalled =>
                     /\ a.otp = FixedOtp
                     /\ a.succeeded = <<"signIn", "lookup">>
                     /\ a.navigated
                /\ a.outcome \in {"invalid", "failed"} => ~a.loginCalled /\ ~a.navigated
                /\ a.otp # FixedOtp => a.calls = <<>> /\ a.outcome = "invalid")
    /\ [][/\ (auth' # auth /\ auth'.isAuthenticated) =>
               \E i \in 1..Len(logins) :
                  /\ logins'[i].loginCalled /\ ~logins[i].loginCalled
                  /\ \E c \in CentersWithPhone(logins[i].phoneNumber) :
                        auth'.diagnosticCenter = <<c.id>>
          /\ \A i \in 1..MaxLogins :
               LoginEndsInFailure(i) =>
                  /\ auth' = auth
                  /\ OnLoginPage => loginPage'.error # ""]_vars

\* One invocation was refused for its code, another one logged in.
C22_Witness ==
    /\ Len(logins) = 2
    /\ logins[1].outcome = "invalid"
    /\ logins[2].outcome = "loggedIn"
    /\ auth.isAuthenticated
    /\ loginPage.location = "/dashboard"

\* The sign-in succeeded and the lookup failed: not logged in.
C22_WitnessLookupFailed ==
    \E i \in 1..Len(logins) :
        /\ logins[i].outcome = "failed"
        /\ logins[i].succeeded = <<"signIn">>
        /\ ~auth.isAuthenticated
        /\ loginPage.error # ""

\* The onSubmit invocations of wizard s that await a round trip.
InFlight(s) == {i \in SubIndex : subs[i].s = s /\ subs[i].pc # "done"}

\* C23: at most one onSubmit sequence per wizard instance is in flight at
\* any time: while one awaits a round trip no second one starts.
C23_OneSubmitInFlight ==
    \A s \in Sessions : Cardinality(InFlight(s)) <= 1

\* What does hold: an onSubmit sequence starts only with the consent verified.
C23_SubmitOnlyWhenVerified ==
    [][\A s \in Sessions :
          Cardinality(InFlight(s))' > Cardinality(InFlight(s)) => consentVerified[s]]_vars

\* The store of SpecEdit's initial state is one the wizard produces.
StoreWithPatientReached ==
    /\ StoreWithPatient
    /\ \E i \in SubIndex : subs[i].outcome = "navigated"

\* The statements of a save in the order the claim gives: pregnancy details
\* with their children, procedures with their indications, consent.
EditOrder(formData) ==
    <<"pregnancy_details">>
    \o (IF Len(formData.newChildren) > 0 THEN <<"children">> ELSE <<>>)
    \o <<"procedures", "delete_indications">>
    \o (IF formData.procedure_indications # {} THEN <<"insert_indications">> ELSE <<>>)
    \o <<"consent">>

EditEnded == edit.pc \in {"done", "failed"}

\* C24: a save issues its statements in the order pregnancy details (with
\* children), procedures (with indications), consent, each after the one
\* before it succeeded; it ends as done exactly when every statement
\* succeeded and then, and only then, calls onUpdate and onClose; after the
\* first rejected statement nothing more is issued, the error is set and
\* the handler leaves the modal open; saving is true while statements are
\* awaited and false once the handler has completed.
C24_EditOrderAndOutcome ==
    /\ [](edit.pc # "idle" =>
            LET order == EditOrder(edit.form[1])
            IN  /\ IsPrefix(edit.issued, order)
                /\ IsPrefix(edit.succeeded, edit.issued)
                /\ edit.pc = "done" <=> edit.succeeded = order
                /\ edit.pc = "failed" => Len(edit.issued) = Len(edit.succeeded) + 1
                /\ ~EditEnded => Len(edit.issued) = Len(edit.succeeded) + 1
                /\ editModal.saving <=> ~EditEnded)
    /\ [][/\ editModal'.updates # editModal.updates =>
               edit'.pc = "done" /\ edit.pc # "done"
          /\ (edit'.pc = "done" /\ edit.pc # "done") =>
               /\ editModal'.updates = editModal.updates + 1
               /\ ~editModal'.isOpen
               /\ editModal'.error = ""
          /\ (edit'.pc = "failed" /\ edit.pc # "failed") =>
               /\ editModal'.error # ""
               /\ editModal'.isOpen = editModal.isOpen
               /\ editModal'.updates = editModal.updates
          /\ (edit.pc = "failed" /\ edit'.pc = "failed") =>
               edit'.issued = edit.issued]_vars

\* A save was rejected at its procedures statement, with the modal open.
C24_Witness ==
    /\ edit.pc = "failed"
    /\ edit.issued = <<"pregnancy_details", "children", "procedures">>
    /\ edit.succeeded = <<"pregnancy_details", "children">>
    /\ editModal.isOpen /\ editModal.error # "" /\ ~editModal.saving
    /\ editModal.updates = 0

\* A save went through all six statements and closed the modal.
C24_WitnessDone ==
    /\ edit.pc = "done"
    /\ Len(edit.succeeded) = 6
    /\ ~editModal.isOpen /\ editModal.updates = 1 /\ ~editModal.saving

\* C26: the consent gate of the modal is verified only after the code
\* entry was shown and only with the fixed test value entered.
C26_ModalVerifiedOnlyByFixedOtp ==
    editModal.consentVerified =>
        /\ editModal.showConsentOtp
        /\ editModal.otp = FixedOtp

\* The half of C26 that holds: verified only after the code entry was
\* shown, and a save starts only when verified.
C26_ModalVerifiedOnlyAfterShown ==
    /\ editModal.consentVerified => editModal.showConsentOtp
    /\ edit.pc # "idle" => editModal.consentVerified

\* C27: after a save has ended, done or failed, the indications stored for
\* the procedure are those stored before the save or those selected in
\* the form.
C27_IndicationsOldOrNew ==
    EditEnded =>
        StoredIndications(edit.patientId) \in {edit.before, edit.form[1].procedure_indications}

\* What holds: a save that ended as done stored the selected indications.
C27_DoneStoresSelected ==
    edit.pc = "done" =>
        StoredIndications(edit.patientId) = edit.form[1].procedure_indications

\* The requests of a registration in the order the claim gives.
RegisterOrder(formData) ==
    <<"signUp", "diagnostic_centers", "performing_doctors">>
    \o (IF Len(formData.referringDoctors) > 0 THEN <<"referring_doctors">> ELSE <<>>)
    \o <<"signIn">>

\* The requests of a trace without the compensating deleteUser call.
Forward(trace) == SelectSeq(trace, LAMBDA r : r # "deleteUser")

Requested(trace, r) == \E k \in 1..Len(trace) : trace[k] = r

\* The step in which the center insert of the pending registration fails.
CenterInsertFails ==
    /\ registration.pc = "diagnostic_centers"
    /\ registration' # registration
    /\ registration'.succeeded = registration.succeeded

\* C25: a registration that passed validation issues sign-up, center insert,
\* performing-doctors insert, referring-doctors insert (when any was entered)
\* and sign-in in this order, each after the one before it succeeded; it
\* stops at the first failure with the page error set; login is called and
\* the dashboard opened exactly when all succeeded; the removal of the auth
\* user is requested exactly in the step in which the center insert fails, so
\* a later failure leaves the auth user and the center row in place.
C25_RegisterOrderAndOutcome ==
    /\ [](registration.issued # <<>> =>
            LET order == RegisterOrder(registration.form[1])
                issued == Forward(registration.issued)
                succeeded == Forward(registration.succeeded)
            IN  /\ IsPrefix(issued, order)
                /\ IsPrefix(succeeded, issued)
                /\ registration.pc = "done" <=> succeeded = order
                /\ registration.pc # "done" => Len(issued) = Len(succeeded) + 1
                /\ registration.navigated <=> registration.pc = "done"
                /\ registration.pc = "failed" => registration.error # ""
                /\ Requested(registration.issued, "deleteUser") <=>
                      /\ Requested(issued, "diagnostic_centers")
                      /\ ~Requested(succeeded, "diagnostic_centers")
                      /\ registration.pc # "diagnostic_centers"
                /\ (registration.pc = "failed" /\ Requested(succeeded, "diagnostic_centers")) =>
                      /\ registration.user \in auth_users
                      /\ \E c \in diagnostic_centers : c.id = registration.user)
    /\ [][/\ authOps' # authOps <=> (registration'.pc = "done" /\ registration.pc = "signIn")
          /\ authOps' # authOps =>
               /\ authOps' = Append(authOps, [op |-> "login", center |-> <<registration.user>>])
               /\ auth'.isAuthenticated
          /\ deleteRequests' # deleteRequests => CenterInsertFails
          /\ CenterInsertFails =>
               /\ registration'.pc = "deleteUser"
               /\ [target |-> "auth.users", key |-> registration.user] \in deleteRequests'
          /\ registration'.pc = "deleteUser" => CenterInsertFails
          /\ (registration.pc = "failed" /\ registration'.pc = "failed") =>
               registration'.issued = registration.issued]_vars

\* A registration failed at the performing-doctors insert: auth user and
\* center row stay, no removal was requested, nobody is logged in.
C25_Witness ==
    /\ registration.pc = "failed"
    /\ registration.issued = <<"signUp", "diagnostic_centers", "performing_doctors">>
    /\ registration.succeeded = <<"signUp", "diagnostic_centers">>
    /\ registration.user \in auth_users
    /\ \E c \in diagnostic_centers : c.id = registration.user
    /\ deleteRequests = {}
    /\ ~auth.isAuthenticated
    /\ registration.error # ""

\* A registration failed at the center insert and the removal was requested.
C25_WitnessCenterFailed ==
    /\ registration.pc = "failed"
    /\ registration.issued = <<"signUp", "diagnostic_centers", "deleteUser">>
    /\ deleteRequests # {}

\* A registration with a referring doctor went through all five requests.
C25_WitnessDone ==
    /\ registration.pc = "done"
    /\ Len(registration.succeeded) = 5
    /\ registration.navigated /\ auth.isAuthenticated

\* The form submitted last on step 3 did not pass validateDoctors.
DoctorsRejected ==
    /\ registration.step = 3
    /\ registration.pc = "idle"
    /\ registration.form # <<>>
    /\ ~validateDoctors(registration.form[1])

\* C28: after a submission with no performing doctor, or with one that has
\* an empty field, no request was issued and formErrors.performingDoctors
\* holds the message of the case.
C28_DoctorMessageSet ==
    DoctorsRejected =>
        /\ registration.issued = <<>>
        /\ registration.formErrors.performingDoctors =
              IF Len(registration.form[1].performingDoctors) = 0
              THEN "At least one performing doctor is required"
              ELSE "All performing doctor fields are required"

\* What holds: no request is issued and nothing is written, and the key
\* performingDoctors of formErrors is absent.
C28_NoRequestNoMessage ==
    DoctorsRejected =>
        /\ registration.issued = <<>>
        /\ registration.error = ""
        /\ registration.formErrors =
              ApplyUpdates(NoFormErrors, <<Replace(validateFormErrors(registration.form[1]))>>)
        /\ registration.formErrors.performingDoctors = ""

\* C29: after any sequence of Next and Previous clicks and search-term
\* changes over any list, the page shown is at least 1 and at most the
\* number of pages of the filtered list, or 1 when there is no page.
C29_PageInRange ==
    /\ 1 <= dashboard.currentPage
    /\ dashboard.currentPage <=
          (IF totalPages(dashboard) > 1 THEN totalPages(dashboard) ELSE 1)

\* What holds: the page is never negative and never beyond the pages of the
\* unfiltered lists.
C29_PageWithinLists ==
    /\ 0 <= dashboard.currentPage
    /\ \E list \in DashboardLists :
         dashboard.currentPage <= Ceil(Len(list), PatientsPerPage)

\* Page 3 is shown while the filtered list has one page: no row is listed.
C29_PageBeyondFiltered ==
    /\ dashboard.currentPage = 3
    /\ totalPages(dashboard) = 1
    /\ currentPatients(dashboard) = <<>>
    /\ filteredPatients(dashboard) # <<>>

\* Page 0 is shown over an empty list.
C29_PageZero ==
    /\ dashboard.currentPage = 0
    /\ totalPages(dashboard) = 0

\* The rows that depend on the patient row `pid`: pregnancy details, their
\* children, procedures, their indications, consent.
DependentRows(pid) ==
    LET details == {r \in pregnancy_details : r.pregnant_woman_id = pid}
        procs == {r \in procedures : r.pregnant_woman_id = pid}
    IN  <<details,
          {r \in children : \E d \in details : r.pregnancy_details_id = d.id},
          procs,
          {r \in procedure_indications : \E q \in procs : r.procedure_id = q.id},
          {r \in consent : r.pregnant_woman_id = pid}>>

\* The i-th onSubmit invocation created its patient row and failed at a
\* later insert.
FailedAfterPatient(i) ==
    /\ subs[i].outcome = "failed"
    /\ subs[i].patientId # 0

\* C30: once an onSubmit invocation has created its patient row and failed
\* at a later insert, the patient row stays, every other invocation with
\* the same Aadhar number gets no further than its patient insert, which
\* the store answers with the uniqueness conflict when it answers at all,
\* and creates no row; the rows depending on the patient never change
\* again.
C30_NoCompletionAfterPartialFailure ==
    /\ [](\A i \in SubIndex :
            FailedAfterPatient(i) =>
               /\ \E r \in pregnant_women :
                     /\ r.id = subs[i].patientId
                     /\ r.aadhar_number = subs[i].data.aadharNumber
               /\ \A j \in SubIndex \ {i} :
                     subs[j].data.aadharNumber = subs[i].data.aadharNumber =>
                        /\ subs[j].issued = <<"pregnant_women">>
                        /\ subs[j].created = {}
                        /\ subs[j].patientId = 0
                        /\ ~subs[j].navigated
                        /\ subs[j].outcome \in {"running", "conflict", "failed"}
                        /\ subs[j].outcome = "failed" => subs[j].rejected = <<"pregnant_women">>)
    /\ [][\A i \in SubIndex :
            FailedAfterPatient(i) =>
               /\ DependentRows(subs[i].patientId)' = DependentRows(subs[i].patientId)
               /\ \A j \in SubIndex \ {i} :
                     (/\ subs[j].data.aadharNumber = subs[i].data.aadharNumber
                      /\ subs[j].pc = "pregnant_women"
                      /\ subs'[j] # subs[j]) =>
                        \/ subs'[j].outcome = "conflict"
                        \/ subs'[j].rejected = <<"pregnant_women">>]_vars

\* An invocation created the patient and its pregnancy details and failed
\* at the procedure insert; the next one with the same number was answered
\* with the conflict and created nothing; no procedure, consent or
\* indication row exists.
C30_Witness ==
    \E i, j \in SubIndex :
        /\ i < j
        /\ FailedAfterPatient(i)
        /\ subs[i].rejected = <<"procedures">>
        /\ subs[j].data.aadharNumber = subs[i].data.aadharNumber
        /\ subs[j].outcome = "conflict"
        /\ subs[j].created = {}
        /\ Cardinality(pregnant_women) = 1
        /\ procedures = {} /\ consent = {} /\ procedure_indications = {}

====
